---- MODULE Spec2Model ----
(***************************************************************************)
(* A model of the tiktokenx BPE tokenizer: the Encoding value built by     *)
(* the registry (encodings.rs, vocab.rs) and the encode / decode engine    *)
(* of core.rs.                                                             *)
(*                                                                         *)
(* Conventions.  A Rust `String` / `&str` is a sequence of Unicode code    *)
(* points; `as_bytes` and `String::from_utf8` are the UTF-8 encoder and    *)
(* validator below.  Offsets into a text are counted in code points (the   *)
(* code counts bytes; both grow together and every offset the code uses    *)
(* is a code-point boundary).  A `HashMap` is a function; a `Result` is a  *)
(* record [ok |-> TRUE, val |-> v] or [ok |-> FALSE, err |-> kind, ...].   *)
(***************************************************************************)
EXTENDS Integers, Sequences, FiniteSets, TLC

VARIABLES
    enc,        \* which Encoding the calls run on: a key of Encodings
    pc,         \* "idle" | "encode" | "merge" | "done": where the current call is
    call,       \* the operation in progress and its arguments
    start,      \* encode: the cursor `start` (core.rs:114)
    tokens,     \* encode: the output vector `tokens` (core.rs:113)
    piece,      \* byte_pair_merge: its argument `piece`
    parts,      \* byte_pair_merge: the working list `parts` of (start, rank)
    min_rank,   \* byte_pair_merge: `min_rank` = (rank, index)
    iters,      \* byte_pair_merge: loop iterations performed so far
    result,     \* what the call returned (NoResult while it runs)
    custom,     \* the Encoding built from a parsed vocabulary file, or None
    shared,     \* the Encoding several threads call at once, or None
    threads,    \* per thread: the call it makes on `shared` and its locals
    registry,   \* ENCODING_REGISTRY: None until its first get_or_init
    log         \* the get_encoding / encoding_name_for_model calls made

\* The variables of one call on a named Encoding.
call_vars == <<pc, call, start, tokens, piece, parts, min_rank, iters, result>>

\* The variables a call on a named Encoding never touches.
others == <<custom, shared, threads, registry, log>>

vars == <<enc, call_vars, others>>

----------------------------------------------------------------------------
(* Bounds of the model.                                                    *)

\* A text is the concatenation of at most MaxChunks entries of Chunks.
MaxChunks == 2
\* HashMap iteration orders explored when the special-token alternation is
\* built: the permutations numbered 0 .. MaxSeeds-1 of the keys.
MaxSeeds == 2
\* A token list handed to decode has at most MaxTokens tokens.
MaxTokens == 2
\* A vocabulary file has at most MaxLines lines.
MaxLines == 2
\* Threads calling one shared Encoding at once.
MaxThreads == 2
\* Calls of get_encoding and encoding_name_for_model made in one run.
MaxCalls == 3
\* Inputs handed to one batch call.
MaxBatch == 2

----------------------------------------------------------------------------
(* Generic helpers.                                                        *)

Range(f) == {f[x] : x \in DOMAIN f}

RECURSIVE Flatten(_)
Flatten(ss) == IF ss = <<>> THEN <<>> ELSE Head(ss) \o Flatten(Tail(ss))

\* The sequences of at most n elements of the sequence `pool`, concatenated.
RECURSIVE Concats(_, _)
Concats(pool, n) ==
    IF n = 0 THEN {<<>>}
    ELSE {<<>>} \cup {pool[i] \o t : i \in DOMAIN pool, t \in Concats(pool, n - 1)}

RECURSIVE SeqsUpTo(_, _)
SeqsUpTo(S, n) ==
    IF n = 0 THEN {<<>>}
    ELSE {<<>>} \cup {<<x>> \o t : x \in S, t \in SeqsUpTo(S, n - 1)}

Max(S) == CHOOSE x \in S : \A y \in S : y <= x

\* The function f, held as a table of its values (a function constructor
\* alone is re-evaluated at every application).
Table(f) == f @@ <<>>

Remove(s, i) == SubSeq(s, 1, i - 1) \o SubSeq(s, i + 1, Len(s))

\* The k-th arrangement of the sequence s (factorial number system): the
\* iteration order a hash seed k gives a HashMap holding the keys s.
RECURSIVE PermK(_, _)
PermK(s, k) ==
    IF s = <<>> THEN <<>>
    ELSE LET i == (k % Len(s)) + 1
         IN  <<s[i]>> \o PermK(Remove(s, i), k \div Len(s))

\* Rank::MAX and usize::MAX.  The model checker's integers are 32-bit
\* signed, so both sentinels are its largest integer: the model's Rank ends
\* there.
RANK_MAX == 2147483647
USIZE_MAX == 2147483647

Ok(v) == [ok |-> TRUE, val |-> v]
Err(kind, arg) == [ok |-> FALSE, err |-> kind, arg |-> arg]
NoResult == [ok |-> FALSE, err |-> "none", arg |-> <<>>]

----------------------------------------------------------------------------
(* Strings and bytes: str::as_bytes and String::from_utf8.                 *)

Utf8Char(c) ==
    IF c < 128 THEN <<c>>
    ELSE IF c < 2048 THEN <<192 + (c \div 64), 128 + (c % 64)>>
    ELSE IF c < 65536
         THEN <<224 + (c \div 4096), 128 + ((c \div 64) % 64), 128 + (c % 64)>>
    ELSE <<240 + (c \div 262144), 128 + ((c \div 4096) % 64),
           128 + ((c \div 64) % 64), 128 + (c % 64)>>

\* as_bytes, had the string been stored one byte per character.
as_bytes_latin1(s) == [i \in DOMAIN s |-> s[i] % 256]

RECURSIVE as_bytes(_)
as_bytes(s) == IF s = <<>> THEN <<>> ELSE Utf8Char(Head(s)) \o as_bytes(Tail(s))

IsCont(b, lo, hi) == b \in lo..hi

\* The length of the well-formed UTF-8 sequence at the head of b, 0 if none
\* (the table of the Unicode standard that String::from_utf8 enforces).
Utf8Len(b) ==
    LET n  == Len(b)
        b1 == b[1]
    IN  IF b1 < 128 THEN 1
        ELSE IF b1 \in 194..223
             THEN IF n >= 2 /\ IsCont(b[2], 128, 191) THEN 2 ELSE 0
        ELSE IF b1 \in 224..239
             THEN IF /\ n >= 3
                     /\ IsCont(b[2], IF b1 = 224 THEN 160 ELSE 128,
                                     IF b1 = 237 THEN 159 ELSE 191)
                     /\ IsCont(b[3], 128, 191)
                  THEN 3 ELSE 0
        ELSE IF b1 \in 240..244
             THEN IF /\ n >= 4
                     /\ IsCont(b[2], IF b1 = 240 THEN 144 ELSE 128,
                                     IF b1 = 244 THEN 143 ELSE 191)
                     /\ IsCont(b[3], 128, 191)
                     /\ IsCont(b[4], 128, 191)
                  THEN 4 ELSE 0
        ELSE 0

Utf8Scalar(b, n) ==
    IF n = 1 THEN b[1]
    ELSE IF n = 2 THEN (b[1] - 192) * 64 + (b[2] - 128)
    ELSE IF n = 3 THEN (b[1] - 224) * 4096 + (b[2] - 128) * 64 + (b[3] - 128)
    ELSE (b[1] - 240) * 262144 + (b[2] - 128) * 4096 + (b[3] - 128) * 64
         + (b[4] - 128)

\* String::from_utf8: the string, or the error, of a whole byte vector.
RECURSIVE from_utf8(_)
from_utf8(b) ==
    IF b = <<>> THEN Ok(<<>>)
    ELSE LET n == Utf8Len(b)
         IN  IF n = 0 THEN Err("FromUtf8Error", <<>>)
             ELSE LET rest == from_utf8(SubSeq(b, n + 1, Len(b)))
                  IN  IF rest.ok THEN Ok(<<Utf8Scalar(b, n)>> \o rest.val)
                      ELSE rest

----------------------------------------------------------------------------
(* vocab.rs: the vocabulary every named encoding is built from when the    *)
(* `download` feature is off (load_tiktoken_bpe, vocab.rs:70-75).          *)

\* HashMap::insert over a sequence of (key, value) entries: a later entry
\* replaces an earlier one with the same key.
InsertAll(entries) ==
    Table([k \in {entries[i][1] : i \in DOMAIN entries} |->
             entries[Max({i \in DOMAIN entries : entries[i][1] = k})][2]])

\* The byte range, had the first loop been written 0..255u8.
SingleBytesShort == [i \in 1..255 |-> i - 1]

\* The byte range of the first loop of create_basic_vocabulary: 0..=255u8.
SingleBytes == [i \in 1..256 |-> i - 1]

common_pairs == <<
    <<116,104>>, <<104,101>>, <<105,110>>, <<101,114>>, <<97,110>>, <<114,101>>,
    <<101,100>>, <<110,100>>, <<111,110>>, <<101,110>>, <<97,116>>, <<111,117>>,
    <<105,116>>, <<105,115>>, <<111,114>>, <<116,105>>, <<97,115>>, <<116,101>>,
    <<101,116>>, <<110,103>>, <<111,102>>, <<97,108>>, <<100,101>>, <<115,101>>,
    <<108,101>>, <<116,111>>, <<110,116>>, <<104,97>>, <<97,114>>, <<104,105,115>>,
    <<102,111,114>>, <<97,114,101>>, <<119,105,116,104>>, <<116,104,97,116>>,
    <<121,111,117>>, <<116,104,105,115>>, <<98,117,116>>, <<104,105,115>>,
    <<102,114,111,109>>, <<116,104,101,121>>, <<115,104,101>>, <<104,101,114>>,
    <<98,101,101,110>>, <<116,104,97,110>>, <<105,116,115>>, <<119,104,111>>,
    <<111,105,108>>, <<115,105,116>>, <<32,116,104,101>>, <<32,97,110,100>>,
    <<32,116,111>>, <<32,111,102>>, <<32,97>>, <<32,105,110>>, <<32,105,115>>,
    <<32,105,116>>, <<32,121,111,117>>, <<32,116,104,97,116>>, <<32,104,101>>,
    <<32,119,97,115>>, <<32,102,111,114>>, <<32,97,114,101>>, <<32,119,105,116,104>>,
    <<32,97,115>>, <<32,73>>, <<32,104,105,115>>, <<32,116,104,101,121>>, <<32,98,101>>,
    <<32,97,116>>, <<32,111,110,101>>, <<32,104,97,118,101>>, <<32,116,104,105,115>>,
    <<32,102,114,111,109>>, <<32,111,114>>, <<32,104,97,100>>, <<32,98,121>>,
    <<32,104,111,116>>, <<32,119,111,114,100>>, <<32,98,117,116>>,
    <<32,119,104,97,116>>, <<32,115,111,109,101>>, <<32,119,101>>, <<32,99,97,110>>,
    <<32,111,117,116>>, <<32,111,116,104,101,114>>, <<32,119,101,114,101>>,
    <<32,97,108,108>>, <<32,116,104,101,114,101>>, <<32,119,104,101,110>>,
    <<32,117,112>>, <<32,117,115,101>>, <<32,121,111,117,114>>, <<32,104,111,119>>,
    <<32,115,97,105,100>>, <<32,97,110>>, <<32,101,97,99,104>>,
    <<32,119,104,105,99,104>>, <<32,115,104,101>>, <<32,100,111>>, <<32,104,97,115>>,
    <<32,119,105,108,108>>, <<32,105,102>>, <<32,97,98,111,117,116>>,
    <<32,103,101,116>>, <<32,103,111>>, <<32,109,101>>, <<32,119,111,117,108,100>>,
    <<32,109,97,107,101>>, <<32,108,105,107,101>>, <<32,105,110,116,111>>,
    <<32,104,105,109>>, <<32,116,105,109,101>>, <<32,116,119,111>>,
    <<32,109,111,114,101>>, <<32,118,101,114,121>>, <<32,97,102,116,101,114>>,
    <<32,98,97,99,107>>, <<32,111,116,104,101,114>>, <<32,109,97,110,121>>,
    <<32,116,104,97,110>>, <<32,102,105,114,115,116>>, <<32,119,101,108,108>>,
    <<32,119,97,121>>, <<32,101,118,101,110>>, <<32,110,101,119>>,
    <<32,119,97,110,116>>, <<32,98,101,99,97,117,115,101>>, <<32,97,110,121>>,
    <<32,116,104,101,115,101>>, <<32,103,105,118,101>>, <<32,100,97,121>>,
    <<32,109,111,115,116>>, <<32,117,115>>
    >>

\* `rank` starts at 0 and is incremented after every insert, whether the
\* insert added a key or replaced one.
create_basic_vocabulary ==
    InsertAll([i \in 1..(Len(SingleBytes) + Len(common_pairs)) |->
                 IF i <= Len(SingleBytes)
                 THEN <<(<<SingleBytes[i]>>), i - 1>>
                 ELSE <<common_pairs[i - Len(SingleBytes)], i - 1>>])

load_tiktoken_bpe(encoding) == create_basic_vocabulary

----------------------------------------------------------------------------
(* vocab.rs: parse_tiktoken_bpe.  The file is a string; 10 is '\n', 13 is  *)
(* '\r'.                                                                   *)

\* char::is_whitespace, as str::trim and str::split_whitespace use it.
is_whitespace(c) == c \in {9, 10, 11, 12, 13, 32, 133, 160, 5760, 8232, 8233, 8239, 8287, 12288}
                       \/ c \in 8192..8202

\* str::lines: the text between line feeds, a carriage return before the
\* line feed dropped; no last line after a final line feed.
RECURSIVE lines_from(_, _)
lines_from(s, cur) ==
    IF s = <<>> THEN (IF cur = <<>> THEN <<>> ELSE <<cur>>)
    ELSE IF Head(s) = 10
    THEN <<(IF cur # <<>> /\ cur[Len(cur)] = 13 THEN SubSeq(cur, 1, Len(cur) - 1) ELSE cur)>>
         \o lines_from(Tail(s), <<>>)
    ELSE lines_from(Tail(s), Append(cur, Head(s)))

lines(content) == lines_from(content, <<>>)

\* str::split_whitespace: the maximal runs of non-whitespace characters.
RECURSIVE split_from(_, _)
split_from(s, cur) ==
    IF s = <<>> THEN (IF cur = <<>> THEN <<>> ELSE <<cur>>)
    ELSE IF is_whitespace(Head(s))
    THEN (IF cur = <<>> THEN <<>> ELSE <<cur>>) \o split_from(Tail(s), <<>>)
    ELSE split_from(Tail(s), Append(cur, Head(s)))

split_whitespace(line) == split_from(line, <<>>)

\* line.trim().is_empty()
trim_is_empty(line) == \A i \in DOMAIN line : is_whitespace(line[i])

\* The value of a symbol of the standard base64 alphabet, 64 for any other
\* character.
b64_value(c) ==
    IF c \in 65..90 THEN c - 65
    ELSE IF c \in 97..122 THEN c - 71
    ELSE IF c \in 48..57 THEN c + 4
    ELSE IF c = 43 THEN 62
    ELSE IF c = 47 THEN 63
    ELSE 64

\* The three bytes of four symbols.
b64_bytes(a, b, c, d) ==
    <<a * 4 + (b \div 16), (b % 16) * 16 + (c \div 4), (c % 4) * 64 + d>>

\* base64::engine::general_purpose::STANDARD.decode: groups of four symbols,
\* the last one padded with '=' (61) to four characters, its unused bits 0.
RECURSIVE b64_decode(_)
b64_decode(s) ==
    IF s = <<>> THEN Ok(<<>>)
    ELSE IF Len(s) < 4 \/ b64_value(s[1]) = 64 \/ b64_value(s[2]) = 64
    THEN Err("DecodeError", s)
    ELSE IF Len(s) = 4 /\ s[3] = 61 /\ s[4] = 61
    THEN (IF b64_value(s[2]) % 16 = 0
          THEN Ok(<<b64_bytes(b64_value(s[1]), b64_value(s[2]), 0, 0)[1]>>)
          ELSE Err("DecodeError", s))
    ELSE IF b64_value(s[3]) = 64 THEN Err("DecodeError", s)
    ELSE IF Len(s) = 4 /\ s[4] = 61
    THEN (IF b64_value(s[3]) % 4 = 0
          THEN Ok(SubSeq(b64_bytes(b64_value(s[1]), b64_value(s[2]), b64_value(s[3]), 0), 1, 2))
          ELSE Err("DecodeError", s))
    ELSE IF b64_value(s[4]) = 64 THEN Err("DecodeError", s)
    ELSE IF ~b64_decode(SubSeq(s, 5, Len(s))).ok THEN Err("DecodeError", s)
    ELSE Ok(b64_bytes(b64_value(s[1]), b64_value(s[2]), b64_value(s[3]), b64_value(s[4]))
            \o b64_decode(SubSeq(s, 5, Len(s))).val)

\* The digits of str::parse::<u32>, most significant first: checked
\* multiplication and addition, None (here 0 - 1) on overflow or non-digit.
RECURSIVE parse_digits(_, _)
parse_digits(s, acc) ==
    IF s = <<>> THEN acc
    ELSE IF Head(s) \notin 48..57 THEN 0 - 1
    ELSE IF acc > (RANK_MAX - (Head(s) - 48)) \div 10 THEN 0 - 1
    ELSE parse_digits(Tail(s), acc * 10 + (Head(s) - 48))

\* parts[1].parse::<Rank>(): an optional '+' (43), then one digit or more.
parse_rank(s) ==
    IF s = <<>> \/ s = <<43>> THEN Err("ParseIntError", s)
    ELSE IF parse_digits(IF s[1] = 43 THEN Tail(s) ELSE s, 0) < 0
    THEN Err("ParseIntError", s)
    ELSE Ok(parse_digits(IF s[1] = 43 THEN Tail(s) ELSE s, 0))

\* parse_entry, had the position of the line been taken for the rank.
parse_entry_position(rank, fields) ==
    IF ~b64_decode(fields[1]).ok THEN Err("DataError", "base64")
    ELSE IF ~parse_rank(fields[2]).ok THEN Err("DataError", "rank")
    ELSE Ok(<<b64_decode(fields[1]).val, rank>>)

\* lines 96-103: the two fields of a line; `rank` is the position of the
\* line that `enumerate` provides.
parse_entry(rank, fields) ==
    IF ~b64_decode(fields[1]).ok THEN Err("DataError", "base64")
    ELSE IF ~parse_rank(fields[2]).ok THEN Err("DataError", "rank")
    ELSE Ok(<<b64_decode(fields[1]).val, parse_rank(fields[2]).val>>)

\* lines 81-106: the loop over the lines ls, `rank` counting them and
\* entries holding the inserts made so far.
RECURSIVE parse_lines(_, _, _)
parse_lines(ls, rank, entries) ==
    IF ls = <<>> THEN Ok(InsertAll(entries))
    ELSE IF trim_is_empty(Head(ls)) THEN parse_lines(Tail(ls), rank + 1, entries)
    ELSE IF Len(split_whitespace(Head(ls))) # 2 THEN Err("DataError", "format")
    ELSE IF ~parse_entry(rank, split_whitespace(Head(ls))).ok
    THEN parse_entry(rank, split_whitespace(Head(ls)))
    ELSE parse_lines(Tail(ls), rank + 1,
                     Append(entries, parse_entry(rank, split_whitespace(Head(ls))).val))

\* parse_tiktoken_bpe (lines 78-109)
parse_tiktoken_bpe(content) == parse_lines(lines(content), 0, <<>>)

----------------------------------------------------------------------------
(* The regex crate, as far as the patterns of encodings.rs use it: a       *)
(* pattern is a tree; matching is leftmost-first (the alternative written  *)
(* first wins, quantifiers are greedy).                                    *)

Chr(c) == [t |-> "chr", k |-> c]
Cls(k) == [t |-> "cls", k |-> k]
\* A string taken literally.
Lit(s) == [t |-> "lit", s |-> s]
Cat(rs) == [t |-> "cat", rs |-> rs]
Alt(rs) == [t |-> "alt", rs |-> rs]
\* r? for any r.
Opt(r) == [t |-> "opt", r |-> r]
\* x{lo,hi} for x one character or one class; hi = -1 is "no upper limit".
Rep(x, lo, hi) == [t |-> "rep", x |-> x, lo |-> lo, hi |-> hi]
Star(x) == Rep(x, 0, -1)
Plus(x) == Rep(x, 1, -1)
\* (?i:...) over an ASCII letter: either case.
ChrI(c) == Alt(<<Chr(c), Chr(c - 32)>>)

\* Unicode general categories of the code points the texts are drawn from.
IsLu(c) == c \in 65..90
IsLl(c) == c \in 97..122 \/ c = 233
IsLt(c) == c = 453
IsLm(c) == c = 688
IsLo(c) == c = 19990
IsM(c) == c = 769
IsL(c) == IsLu(c) \/ IsLl(c) \/ IsLt(c) \/ IsLm(c) \/ IsLo(c)
IsN(c) == c \in 48..57 \/ c = 178
IsSpace(c) == c \in {9, 10, 11, 12, 13, 32, 133, 160}

InClass(k, c) ==
    CASE k = "[sdmt]" -> c \in {115, 100, 109, 116}
      [] k = "\\p{L}" -> IsL(c)
      [] k = "\\p{N}" -> IsN(c)
      [] k = "\\s" -> IsSpace(c)
      [] k = "[^\\s\\p{L}\\p{N}]" -> ~(IsSpace(c) \/ IsL(c) \/ IsN(c))
      [] k = "[^\\r\\n\\p{L}\\p{N}]" -> ~(c \in {13, 10} \/ IsL(c) \/ IsN(c))
      [] k = "[\\p{Lu}\\p{Lt}\\p{Lm}\\p{Lo}\\p{M}]" ->
            IsLu(c) \/ IsLt(c) \/ IsLm(c) \/ IsLo(c) \/ IsM(c)
      [] k = "[\\p{Ll}\\p{Lm}\\p{Lo}\\p{M}]" ->
            IsLl(c) \/ IsLm(c) \/ IsLo(c) \/ IsM(c)
      [] k = "[\\r\\n/]" -> c \in {13, 10, 47}
      [] k = "[\\r\\n]" -> c \in {13, 10}

\* Whether the one-character pattern x (a character or a class) matches c.
MatchesChar(x, c) == IF x.t = "chr" THEN c = x.k ELSE InClass(x.k, c)

\* How many characters from offset p on match x, counting at most hi.
RECURSIVE RunLen(_, _, _, _)
RunLen(x, s, p, hi) ==
    IF hi = 0 \/ p >= Len(s) \/ ~MatchesChar(x, s[p + 1]) THEN 0
    ELSE 1 + RunLen(x, s, p + 1, hi - 1)

\* Ends(re, s, p): the offsets at which a match of re that starts at offset
\* p of s can end, in the order the engine prefers them (a greedy
\* quantifier prefers the longest run, an alternation its first branch).
RECURSIVE Ends(_, _, _)
RECURSIVE EndsCat(_, _, _)
RECURSIVE EndsAlt(_, _, _)
RECURSIVE EndsFrom(_, _, _)

EndsFrom(re, s, ps) ==
    IF ps = <<>> THEN <<>>
    ELSE Ends(re, s, Head(ps)) \o EndsFrom(re, s, Tail(ps))

EndsCat(rs, s, ps) ==
    IF rs = <<>> \/ ps = <<>> THEN ps
    ELSE EndsCat(Tail(rs), s, EndsFrom(Head(rs), s, ps))

EndsAlt(rs, s, p) ==
    IF rs = <<>> THEN <<>>
    ELSE Ends(Head(rs), s, p) \o EndsAlt(Tail(rs), s, p)

Ends(re, s, p) ==
    CASE re.t = "chr" \/ re.t = "cls" ->
            IF p < Len(s) /\ MatchesChar(re, s[p + 1]) THEN <<p + 1>> ELSE <<>>
      [] re.t = "lit" ->
            IF p + Len(re.s) <= Len(s) /\ SubSeq(s, p + 1, p + Len(re.s)) = re.s
            THEN <<p + Len(re.s)>> ELSE <<>>
      [] re.t = "cat" -> EndsCat(re.rs, s, <<p>>)
      [] re.t = "alt" -> EndsAlt(re.rs, s, p)
      [] re.t = "opt" -> Ends(re.r, s, p) \o <<p>>
      [] re.t = "rep" ->
            LET run == RunLen(re.x, s, p, re.hi)
            IN  [j \in 1..(run - re.lo + 1) |-> p + run - j + 1]

\* A match is <<start, end>> (offsets); NoMatch when there is none.
NoMatch == <<>>

\* Regex::find_at: the leftmost match starting at offset p or later.
RECURSIVE find_at(_, _, _)
find_at(re, s, p) ==
    IF p > Len(s) THEN NoMatch
    ELSE LET es == Ends(re, s, p)
         IN  IF es # <<>> THEN <<p, es[1]>> ELSE find_at(re, s, p + 1)

\* Regex::find_iter: the successive non-overlapping matches, left to right
\* (after an empty match the search resumes one code point further).
\* Where find_iter resumes after the match m.
next_search(m) == IF m[2] > m[1] THEN m[2] ELSE m[2] + 1

RECURSIVE find_iter_from(_, _, _)
find_iter_from(re, s, p) ==
    LET m == find_at(re, s, p)
    IN  IF m = NoMatch THEN <<>>
        ELSE <<m>> \o find_iter_from(re, s, next_search(m))

find_iter(re, s) == find_iter_from(re, s, 0)

\* &s[a..b]
Slice(s, a, b) == SubSeq(s, a + 1, b)

\* regex::escape: a backslash before every meta character.
MetaChars == {92, 46, 43, 42, 63, 40, 41, 124, 91, 93, 123, 125, 94, 36, 35, 38, 45, 126}

RECURSIVE regex_escape(_)
regex_escape(s) ==
    IF s = <<>> THEN <<>>
    ELSE (IF Head(s) \in MetaChars THEN <<92, Head(s)>> ELSE <<Head(s)>>)
         \o regex_escape(Tail(s))

\* Regex::new on a pattern made of literals, escapes and `|`: the
\* alternatives, split at each unescaped `|`, a backslash taking the next
\* character literally.
RECURSIVE ParseAlternatives(_, _, _)
ParseAlternatives(pat, cur, acc) ==
    IF pat = <<>> THEN acc \o <<Lit(cur)>>
    ELSE IF Head(pat) = 92 /\ Len(pat) >= 2
         THEN ParseAlternatives(Tail(Tail(pat)), cur \o <<pat[2]>>, acc)
    ELSE IF Head(pat) = 124
         THEN ParseAlternatives(Tail(pat), <<>>, acc \o <<Lit(cur)>>)
    ELSE ParseAlternatives(Tail(pat), cur \o <<Head(pat)>>, acc)

regex_new_literals(pat) == Alt(ParseAlternatives(pat, <<>>, <<>>))

\* [String].join("|")
RECURSIVE Join(_)
Join(ss) ==
    IF ss = <<>> THEN <<>>
    ELSE IF Len(ss) = 1 THEN ss[1]
    ELSE ss[1] \o <<124>> \o Join(Tail(ss))

----------------------------------------------------------------------------
(* encodings.rs: special tokens, patterns and the six named encodings.     *)

ENDOFTEXT == <<60,124,101,110,100,111,102,116,101,120,116,124,62>>
FIM_PREFIX == <<60,124,102,105,109,95,112,114,101,102,105,120,124,62>>
FIM_MIDDLE == <<60,124,102,105,109,95,109,105,100,100,108,101,124,62>>
FIM_SUFFIX == <<60,124,102,105,109,95,115,117,102,102,105,120,124,62>>
ENDOFPROMPT == <<60,124,101,110,100,111,102,112,114,111,109,112,116,124,62>>

\* '(?:[sdmt]|ll|ve|re)| ?\p{L}+| ?\p{N}+| ?[^\s\p{L}\p{N}]+|\s+
R50K_PAT_STR ==
    Alt(<< Cat(<<Chr(39), Alt(<<Cls("[sdmt]"), Lit(<<108,108>>),
                                 Lit(<<118,101>>), Lit(<<114,101>>)>>)>>),
           Cat(<<Opt(Chr(32)), Plus(Cls("\\p{L}"))>>),
           Cat(<<Opt(Chr(32)), Plus(Cls("\\p{N}"))>>),
           Cat(<<Opt(Chr(32)), Plus(Cls("[^\\s\\p{L}\\p{N}]"))>>),
           Plus(Cls("\\s")) >>)

\* \p{L}+|\p{N}+|[^\s\p{L}\p{N}]+|\s+
CL100K_PAT_STR ==
    Alt(<< Plus(Cls("\\p{L}")),
           Plus(Cls("\\p{N}")),
           Plus(Cls("[^\\s\\p{L}\\p{N}]")),
           Plus(Cls("\\s")) >>)

LitI(s) == Cat([i \in DOMAIN s |-> ChrI(s[i])] \o <<>>)

\* (?i:'s|'t|'re|'ve|'m|'ll|'d)
O200K_SUFFIX ==
    Alt(<< Cat(<<Chr(39), LitI(<<115>>)>>),
           Cat(<<Chr(39), LitI(<<116>>)>>),
           Cat(<<Chr(39), LitI(<<114,101>>)>>),
           Cat(<<Chr(39), LitI(<<118,101>>)>>),
           Cat(<<Chr(39), LitI(<<109>>)>>),
           Cat(<<Chr(39), LitI(<<108,108>>)>>),
           Cat(<<Chr(39), LitI(<<100>>)>>) >>)

O200K_PAT_STR ==
    Alt(<< Cat(<<Opt(Cls("[^\\r\\n\\p{L}\\p{N}]")),
                 Star(Cls("[\\p{Lu}\\p{Lt}\\p{Lm}\\p{Lo}\\p{M}]")),
                 Plus(Cls("[\\p{Ll}\\p{Lm}\\p{Lo}\\p{M}]")),
                 Opt(O200K_SUFFIX)>>),
           Cat(<<Opt(Cls("[^\\r\\n\\p{L}\\p{N}]")),
                 Plus(Cls("[\\p{Lu}\\p{Lt}\\p{Lm}\\p{Lo}\\p{M}]")),
                 Star(Cls("[\\p{Ll}\\p{Lm}\\p{Lo}\\p{M}]")),
                 Opt(O200K_SUFFIX)>>),
           Rep(Cls("\\p{N}"), 1, 3),
           Cat(<<Opt(Chr(32)), Plus(Cls("[^\\s\\p{L}\\p{N}]")),
                 Star(Cls("[\\r\\n/]"))>>),
           Cat(<<Star(Cls("\\s")), Plus(Cls("[\\r\\n]"))>>),
           Plus(Cls("\\s")) >>)

----------------------------------------------------------------------------
(* core.rs: CoreBPE::new / Encoding::new.                                  *)


\* Option::None for `special_regex`.
None == [t |-> "none"]

\* The keys of a map built by inserting `entries` in order, first insertion
\* first.
RECURSIVE KeysInOrder(_, _)
KeysInOrder(entries, seen) ==
    IF entries = <<>> THEN <<>>
    ELSE IF Head(entries)[1] \in seen THEN KeysInOrder(Tail(entries), seen)
    ELSE <<Head(entries)[1]>>
         \o KeysInOrder(Tail(entries), seen \cup {Head(entries)[1]})

\* special_tokens.keys(): the keys in the order the HashMap's hasher, seeded
\* with `seed`, yields them.
keys(entries, seed) == PermK(KeysInOrder(entries, {}), seed)

\* escaped_tokens without the call of regex::escape.
unescaped_tokens(ks) == ks

\* special_tokens.keys().map(|s| regex::escape(s)).collect()
escaped_tokens(ks) == [i \in DOMAIN ks |-> regex_escape(ks[i])]

\* special_regex_new, had the alternation kept only the name the HashMap
\* yields first.
special_regex_first(entries, seed) ==
    IF entries = <<>> THEN None
    ELSE regex_new_literals(Join(<<escaped_tokens(keys(entries, seed))[1]>>))

\* lines 52-59
special_regex_new(entries, seed) ==
    IF entries = <<>> THEN None
    ELSE regex_new_literals(Join(escaped_tokens(keys(entries, seed))))

\* lines 42-44, for an encoder whose tokens are all different (every
\* vocabulary of load_tiktoken_bpe): the one element of decoders_new.
decoder_new(encoder) ==
    Table([t \in Range(encoder) |-> CHOOSE b \in DOMAIN encoder : encoder[b] = t])

\* lines 46-50
special_tokens_decoder_new(special_tokens) ==
    Table([t \in Range(special_tokens) |->
             as_bytes(CHOOSE s \in DOMAIN special_tokens : special_tokens[s] = t)])

\* lines 42-44 when two keys of the encoder share a token: `collect` keeps
\* the pair the HashMap's iteration yields last, any one of the keys.
decoders_new(encoder) ==
    {d \in [Range(encoder) -> DOMAIN encoder] : \A t \in Range(encoder) : encoder[d[t]] = t}

\* Encoding::new(name, mergeable_ranks, special_tokens, pattern); the special
\* tokens are given as the (name, id) entries inserted into the HashMap.
Encoding_new(name, mergeable_ranks, entries, pattern, seed) ==
    LET special_tokens == InsertAll(entries)
    IN  [name |-> name,
         encoder |-> mergeable_ranks,
         decoder |-> decoder_new(mergeable_ranks),
         special_tokens_encoder |-> special_tokens,
         special_tokens_decoder |-> special_tokens_decoder_new(special_tokens),
         regex |-> pattern,
         special_regex |-> special_regex_new(entries, seed)]

\* r50k_base, had "<|endoftext|>" been given the id 116, the rank of "t".
r50k_base_overlap(seed) ==
    Encoding_new("r50k_base", load_tiktoken_bpe("r50k_base"),
                 <<(<<ENDOFTEXT, 116>>)>>, R50K_PAT_STR, seed)

(* encodings.rs: the constructors. *)
r50k_base(seed) ==
    Encoding_new("r50k_base", load_tiktoken_bpe("r50k_base"),
                 <<(<<ENDOFTEXT, 50256>>)>>, R50K_PAT_STR, seed)

p50k_base(seed) ==
    Encoding_new("p50k_base", load_tiktoken_bpe("p50k_base"),
                 <<(<<ENDOFTEXT, 50256>>)>>, R50K_PAT_STR, seed)

p50k_edit(seed) ==
    Encoding_new("p50k_edit", load_tiktoken_bpe("p50k_base"),
                 << <<ENDOFTEXT, 50256>>, <<FIM_PREFIX, 50281>>,
                    <<FIM_MIDDLE, 50282>>, <<FIM_SUFFIX, 50283>> >>,
                 R50K_PAT_STR, seed)

cl100k_base(seed) ==
    Encoding_new("cl100k_base", load_tiktoken_bpe("cl100k_base"),
                 << <<ENDOFTEXT, 100257>>, <<FIM_PREFIX, 100258>>,
                    <<FIM_MIDDLE, 100259>>, <<FIM_SUFFIX, 100260>>,
                    <<ENDOFPROMPT, 100276>> >>,
                 CL100K_PAT_STR, seed)

o200k_base(seed) ==
    Encoding_new("o200k_base", load_tiktoken_bpe("o200k_base"),
                 << <<ENDOFTEXT, 199999>>, <<ENDOFPROMPT, 200018>> >>,
                 O200K_PAT_STR, seed)

gpt2(seed) ==
    Encoding_new("gpt2", load_tiktoken_bpe("r50k_base"),
                 <<(<<ENDOFTEXT, 50256>>)>>, R50K_PAT_STR, seed)

\* init_registry: the names get_encoding knows.
ENCODING_REGISTRY ==
    {"r50k_base", "p50k_base", "p50k_edit", "cl100k_base", "o200k_base", "gpt2"}

\* get_encoding(name), for a registered name.
get_encoding(name, seed) ==
    CASE name = "r50k_base" -> r50k_base(seed)
      [] name = "p50k_base" -> p50k_base(seed)
      [] name = "p50k_edit" -> p50k_edit(seed)
      [] name = "cl100k_base" -> cl100k_base(seed)
      [] name = "o200k_base" -> o200k_base(seed)
      [] name = "gpt2" -> gpt2(seed)

----------------------------------------------------------------------------
(* encodings.rs and models.rs: the registry of encodings and the model    *)
(* tables.  Model names are sequences of character codes, encoding names   *)
(* are strings.                                                            *)

\* init_prefix_registry (models.rs 16-43): the (prefix, encoding name) pairs.
init_prefix_registry == <<
    \* "o1-"
    << <<111,49,45>>, "o200k_base" >>,
    \* "o3-"
    << <<111,51,45>>, "o200k_base" >>,
    \* "o4-mini-"
    << <<111,52,45,109,105,110,105,45>>, "o200k_base" >>,
    \* "gpt-5-"
    << <<103,112,116,45,53,45>>, "o200k_base" >>,
    \* "gpt-4.5-"
    << <<103,112,116,45,52,46,53,45>>, "o200k_base" >>,
    \* "gpt-4.1-"
    << <<103,112,116,45,52,46,49,45>>, "o200k_base" >>,
    \* "chatgpt-4o-"
    << <<99,104,97,116,103,112,116,45,52,111,45>>, "o200k_base" >>,
    \* "gpt-4o-"
    << <<103,112,116,45,52,111,45>>, "o200k_base" >>,
    \* "gpt-4-"
    << <<103,112,116,45,52,45>>, "cl100k_base" >>,
    \* "gpt-3.5-turbo-"
    << <<103,112,116,45,51,46,53,45,116,117,114,98,111,45>>, "cl100k_base" >>,
    \* "gpt-35-turbo-"
    << <<103,112,116,45,51,53,45,116,117,114,98,111,45>>, "cl100k_base" >>,
    \* "gpt-oss-"
    << <<103,112,116,45,111,115,115,45>>, "o200k_harmony" >>,
    \* "ft:gpt-4o"
    << <<102,116,58,103,112,116,45,52,111>>, "o200k_base" >>,
    \* "ft:gpt-4"
    << <<102,116,58,103,112,116,45,52>>, "cl100k_base" >>,
    \* "ft:gpt-3.5-turbo"
    << <<102,116,58,103,112,116,45,51,46,53,45,116,117,114,98,111>>, "cl100k_base" >>,
    \* "ft:davinci-002"
    << <<102,116,58,100,97,118,105,110,99,105,45,48,48,50>>, "cl100k_base" >>,
    \* "ft:babbage-002"
    << <<102,116,58,98,97,98,98,97,103,101,45,48,48,50>>, "cl100k_base" >>
>>

\* init_model_registry (models.rs 46-114): the (model name, encoding name)
\* pairs.
init_model_registry == <<
    \* "o1"
    << <<111,49>>, "o200k_base" >>,
    \* "o3"
    << <<111,51>>, "o200k_base" >>,
    \* "o4-mini"
    << <<111,52,45,109,105,110,105>>, "o200k_base" >>,
    \* "gpt-5"
    << <<103,112,116,45,53>>, "o200k_base" >>,
    \* "gpt-4.1"
    << <<103,112,116,45,52,46,49>>, "o200k_base" >>,
    \* "gpt-4o"
    << <<103,112,116,45,52,111>>, "o200k_base" >>,
    \* "gpt-4"
    << <<103,112,116,45,52>>, "cl100k_base" >>,
    \* "gpt-3.5-turbo"
    << <<103,112,116,45,51,46,53,45,116,117,114,98,111>>, "cl100k_base" >>,
    \* "gpt-3.5"
    << <<103,112,116,45,51,46,53>>, "cl100k_base" >>,
    \* "gpt-35-turbo"
    << <<103,112,116,45,51,53,45,116,117,114,98,111>>, "cl100k_base" >>,
    \* "davinci-002"
    << <<100,97,118,105,110,99,105,45,48,48,50>>, "cl100k_base" >>,
    \* "babbage-002"
    << <<98,97,98,98,97,103,101,45,48,48,50>>, "cl100k_base" >>,
    \* "text-embedding-ada-002"
    << <<116,101,120,116,45,101,109,98,101,100,100,105,110,103,45,97,100,97,45,48,48,50>>, "cl100k_base" >>,
    \* "text-embedding-3-small"
    << <<116,101,120,116,45,101,109,98,101,100,100,105,110,103,45,51,45,115,109,97,108,108>>, "cl100k_base" >>,
    \* "text-embedding-3-large"
    << <<116,101,120,116,45,101,109,98,101,100,100,105,110,103,45,51,45,108,97,114,103,101>>, "cl100k_base" >>,
    \* "text-davinci-003"
    << <<116,101,120,116,45,100,97,118,105,110,99,105,45,48,48,51>>, "p50k_base" >>,
    \* "text-davinci-002"
    << <<116,101,120,116,45,100,97,118,105,110,99,105,45,48,48,50>>, "p50k_base" >>,
    \* "text-davinci-001"
    << <<116,101,120,116,45,100,97,118,105,110,99,105,45,48,48,49>>, "r50k_base" >>,
    \* "text-curie-001"
    << <<116,101,120,116,45,99,117,114,105,101,45,48,48,49>>, "r50k_base" >>,
    \* "text-babbage-001"
    << <<116,101,120,116,45,98,97,98,98,97,103,101,45,48,48,49>>, "r50k_base" >>,
    \* "text-ada-001"
    << <<116,101,120,116,45,97,100,97,45,48,48,49>>, "r50k_base" >>,
    \* "davinci"
    << <<100,97,118,105,110,99,105>>, "r50k_base" >>,
    \* "curie"
    << <<99,117,114,105,101>>, "r50k_base" >>,
    \* "babbage"
    << <<98,97,98,98,97,103,101>>, "r50k_base" >>,
    \* "ada"
    << <<97,100,97>>, "r50k_base" >>,
    \* "code-davinci-002"
    << <<99,111,100,101,45,100,97,118,105,110,99,105,45,48,48,50>>, "p50k_base" >>,
    \* "code-davinci-001"
    << <<99,111,100,101,45,100,97,118,105,110,99,105,45,48,48,49>>, "p50k_base" >>,
    \* "code-cushman-002"
    << <<99,111,100,101,45,99,117,115,104,109,97,110,45,48,48,50>>, "p50k_base" >>,
    \* "code-cushman-001"
    << <<99,111,100,101,45,99,117,115,104,109,97,110,45,48,48,49>>, "p50k_base" >>,
    \* "davinci-codex"
    << <<100,97,118,105,110,99,105,45,99,111,100,101,120>>, "p50k_base" >>,
    \* "cushman-codex"
    << <<99,117,115,104,109,97,110,45,99,111,100,101,120>>, "p50k_base" >>,
    \* "text-davinci-edit-001"
    << <<116,101,120,116,45,100,97,118,105,110,99,105,45,101,100,105,116,45,48,48,49>>, "p50k_edit" >>,
    \* "code-davinci-edit-001"
    << <<99,111,100,101,45,100,97,118,105,110,99,105,45,101,100,105,116,45,48,48,49>>, "p50k_edit" >>,
    \* "text-similarity-davinci-001"
    << <<116,101,120,116,45,115,105,109,105,108,97,114,105,116,121,45,100,97,118,105,110,99,105,45,48,48,49>>, "r50k_base" >>,
    \* "text-similarity-curie-001"
    << <<116,101,120,116,45,115,105,109,105,108,97,114,105,116,121,45,99,117,114,105,101,45,48,48,49>>, "r50k_base" >>,
    \* "text-similarity-babbage-001"
    << <<116,101,120,116,45,115,105,109,105,108,97,114,105,116,121,45,98,97,98,98,97,103,101,45,48,48,49>>, "r50k_base" >>,
    \* "text-similarity-ada-001"
    << <<116,101,120,116,45,115,105,109,105,108,97,114,105,116,121,45,97,100,97,45,48,48,49>>, "r50k_base" >>,
    \* "text-search-davinci-doc-001"
    << <<116,101,120,116,45,115,101,97,114,99,104,45,100,97,118,105,110,99,105,45,100,111,99,45,48,48,49>>, "r50k_base" >>,
    \* "text-search-curie-doc-001"
    << <<116,101,120,116,45,115,101,97,114,99,104,45,99,117,114,105,101,45,100,111,99,45,48,48,49>>, "r50k_base" >>,
    \* "text-search-babbage-doc-001"
    << <<116,101,120,116,45,115,101,97,114,99,104,45,98,97,98,98,97,103,101,45,100,111,99,45,48,48,49>>, "r50k_base" >>,
    \* "text-search-ada-doc-001"
    << <<116,101,120,116,45,115,101,97,114,99,104,45,97,100,97,45,100,111,99,45,48,48,49>>, "r50k_base" >>,
    \* "code-search-babbage-code-001"
    << <<99,111,100,101,45,115,101,97,114,99,104,45,98,97,98,98,97,103,101,45,99,111,100,101,45,48,48,49>>, "r50k_base" >>,
    \* "code-search-ada-code-001"
    << <<99,111,100,101,45,115,101,97,114,99,104,45,97,100,97,45,99,111,100,101,45,48,48,49>>, "r50k_base" >>,
    \* "gpt2"
    << <<103,112,116,50>>, "gpt2" >>,
    \* "gpt-2"
    << <<103,112,116,45,50>>, "gpt2" >>
>>

\* str::starts_with
starts_with(s, p) == Len(p) <= Len(s) /\ SubSeq(s, 1, Len(p)) = p

\* encoding_name_for_model (models.rs 117-134) with the exact table left
\* out: every prefix is tried.
encoding_names_by_prefix(model_name) ==
    IF \E i \in DOMAIN init_prefix_registry :
          starts_with(model_name, init_prefix_registry[i][1])
    THEN {Ok(init_prefix_registry[i][2]) :
             i \in {j \in DOMAIN init_prefix_registry :
                       starts_with(model_name, init_prefix_registry[j][1])}}
    ELSE {Err("UnknownModel", model_name)}

\* encoding_name_for_model (models.rs 117-134): the results the call can
\* return.  The exact table is looked up first; the loop over the prefix
\* table then returns the encoding of the matching prefix that
\* prefix_registry.iter(), a HashMap iteration, yields first: any of them.
encoding_names_for_model(model_name) ==
    IF \E i \in DOMAIN init_model_registry : init_model_registry[i][1] = model_name
    THEN {Ok(init_model_registry[i][2]) :
             i \in {j \in DOMAIN init_model_registry :
                       init_model_registry[j][1] = model_name}}
    ELSE encoding_names_by_prefix(model_name)

\* Option::Some(v), the content of an initialised OnceLock.
Some(v) == [t |-> "some", v |-> v]

\* OnceLock::get_or_init(init_registry) on ENCODING_REGISTRY: the cell once
\* it holds the names whose constructors init_registry inserts.
get_or_init(cell) == IF cell.t = "none" THEN Some(ENCODING_REGISTRY) ELSE cell

\* constructor(): the constructor of `name` run once more.  It fails with
\* DataError when load_tiktoken_bpe cannot fetch or verify the vocabulary
\* (vocab.rs 47-64) and otherwise returns a new Encoding, given here by its
\* `name` field.
constructor(name, load) ==
    IF load = "fail" THEN Err("DataError", name) ELSE Ok(name)

\* get_encoding, had a failed construction emptied the registry.
get_encoding_poisoning(cell, name, load) ==
    IF name \in get_or_init(cell).v
    THEN [registry |-> IF load = "fail" THEN Some({}) ELSE get_or_init(cell),
          result |-> constructor(name, load)]
    ELSE [registry |-> get_or_init(cell),
          result |-> Err("UnknownEncoding", name)]

\* get_encoding(name) (encodings.rs 30-38) on the registry cell: the cell
\* after the call and the result.
get_encoding_in(cell, name, load) ==
    IF name \in get_or_init(cell).v
    THEN [registry |-> get_or_init(cell), result |-> constructor(name, load)]
    ELSE [registry |-> get_or_init(cell),
          result |-> Err("UnknownEncoding", name)]

----------------------------------------------------------------------------
(* models.rs: encoding_for_model; vendors.rs and lib.rs: the providers and *)
(* the dispatch over them.  A provider is given by its name().             *)

\* encoding_for_model (models.rs 137-140) on the registry cell, r being what
\* encoding_name_for_model returned: the cell after the call and the result.
encoding_for_model_in(cell, r, load) ==
    IF r.ok THEN get_encoding_in(cell, r.val, load)
    ELSE [registry |-> cell, result |-> r]

\* OpenAIProvider::available_models (vendors.rs 48-90)
openai_available_models == <<
    \* "o1"
    <<111,49>>,
    \* "o3"
    <<111,51>>,
    \* "o4-mini"
    <<111,52,45,109,105,110,105>>,
    \* "gpt-4.1"
    <<103,112,116,45,52,46,49>>,
    \* "gpt-4o"
    <<103,112,116,45,52,111>>,
    \* "gpt-4"
    <<103,112,116,45,52>>,
    \* "gpt-3.5-turbo"
    <<103,112,116,45,51,46,53,45,116,117,114,98,111>>,
    \* "gpt-3.5"
    <<103,112,116,45,51,46,53>>,
    \* "gpt-35-turbo"
    <<103,112,116,45,51,53,45,116,117,114,98,111>>,
    \* "davinci-002"
    <<100,97,118,105,110,99,105,45,48,48,50>>,
    \* "babbage-002"
    <<98,97,98,98,97,103,101,45,48,48,50>>,
    \* "text-embedding-ada-002"
    <<116,101,120,116,45,101,109,98,101,100,100,105,110,103,45,97,100,97,45,48,48,50>>,
    \* "text-embedding-3-small"
    <<116,101,120,116,45,101,109,98,101,100,100,105,110,103,45,51,45,115,109,97,108,108>>,
    \* "text-embedding-3-large"
    <<116,101,120,116,45,101,109,98,101,100,100,105,110,103,45,51,45,108,97,114,103,101>>,
    \* "text-davinci-003"
    <<116,101,120,116,45,100,97,118,105,110,99,105,45,48,48,51>>,
    \* "text-davinci-002"
    <<116,101,120,116,45,100,97,118,105,110,99,105,45,48,48,50>>,
    \* "text-davinci-001"
    <<116,101,120,116,45,100,97,118,105,110,99,105,45,48,48,49>>,
    \* "text-curie-001"
    <<116,101,120,116,45,99,117,114,105,101,45,48,48,49>>,
    \* "text-babbage-001"
    <<116,101,120,116,45,98,97,98,98,97,103,101,45,48,48,49>>,
    \* "text-ada-001"
    <<116,101,120,116,45,97,100,97,45,48,48,49>>,
    \* "davinci"
    <<100,97,118,105,110,99,105>>,
    \* "curie"
    <<99,117,114,105,101>>,
    \* "babbage"
    <<98,97,98,98,97,103,101>>,
    \* "ada"
    <<97,100,97>>,
    \* "code-davinci-002"
    <<99,111,100,101,45,100,97,118,105,110,99,105,45,48,48,50>>,
    \* "code-davinci-001"
    <<99,111,100,101,45,100,97,118,105,110,99,105,45,48,48,49>>,
    \* "code-cushman-002"
    <<99,111,100,101,45,99,117,115,104,109,97,110,45,48,48,50>>,
    \* "code-cushman-001"
    <<99,111,100,101,45,99,117,115,104,109,97,110,45,48,48,49>>,
    \* "davinci-codex"
    <<100,97,118,105,110,99,105,45,99,111,100,101,120>>,
    \* "cushman-codex"
    <<99,117,115,104,109,97,110,45,99,111,100,101,120>>,
    \* "text-davinci-edit-001"
    <<116,101,120,116,45,100,97,118,105,110,99,105,45,101,100,105,116,45,48,48,49>>,
    \* "code-davinci-edit-001"
    <<99,111,100,101,45,100,97,118,105,110,99,105,45,101,100,105,116,45,48,48,49>>,
    \* "gpt2"
    <<103,112,116,50>>,
    \* "gpt-2"
    <<103,112,116,45,50>>
>>

\* AnthropicProvider::available_models (vendors.rs 116-125)
anthropic_available_models == <<
    \* "claude-3-opus"
    <<99,108,97,117,100,101,45,51,45,111,112,117,115>>,
    \* "claude-3-sonnet"
    <<99,108,97,117,100,101,45,51,45,115,111,110,110,101,116>>,
    \* "claude-3-haiku"
    <<99,108,97,117,100,101,45,51,45,104,97,105,107,117>>,
    \* "claude-2.1"
    <<99,108,97,117,100,101,45,50,46,49>>,
    \* "claude-2.0"
    <<99,108,97,117,100,101,45,50,46,48>>,
    \* "claude-instant-1.2"
    <<99,108,97,117,100,101,45,105,110,115,116,97,110,116,45,49,46,50>>
>>

\* XAIProvider::available_models (vendors.rs 167-169)
xai_available_models == <<
    \* "grok-1"
    <<103,114,111,107,45,49>>,
    \* "grok-1.5"
    <<103,114,111,107,45,49,46,53>>,
    \* "grok-2"
    <<103,114,111,107,45,50>>
>>

\* VendorRegistry::new (vendors.rs 203-212): the keys of `providers`.
providers == {"openai", "anthropic", "xai"}

available_models(vendor) ==
    CASE vendor = "openai" -> openai_available_models
      [] vendor = "anthropic" -> anthropic_available_models
      [] vendor = "xai" -> xai_available_models

\* VendorProvider::supports_model (vendors.rs 26-28), which no provider
\* overrides.
supports_model(vendor, model) ==
    \E i \in DOMAIN available_models(vendor) : available_models(vendor)[i] = model

\* VendorRegistry::find_vendor_for_model (vendors.rs 225-230): the providers
\* `find` can return, providers.values() being a HashMap iteration; {} for
\* None.
find_vendor_for_model(model) == {vendor \in providers : supports_model(vendor, model)}

\* VendorProvider::encoding_for_model of each provider (vendors.rs 92-94,
\* 127-132, 171-176): the results the call can return.  "claude" and "grok"
\* are the prefixes.
vendor_encoding_for_model(vendor, model) ==
    CASE vendor = "openai" -> encoding_names_for_model(model)
      [] vendor = "anthropic" ->
            IF starts_with(model, <<99,108,97,117,100,101>>)
            THEN {Ok("claude_base")} ELSE {Err("UnknownModel", model)}
      [] vendor = "xai" ->
            IF starts_with(model, <<103,114,111,107>>)
            THEN {Ok("grok_base")} ELSE {Err("UnknownModel", model)}

\* VendorProvider::create_encoding of each provider (vendors.rs 96-98,
\* 134-149, 178-193): the registry cell after the call and the result, an
\* Encoding being given by its `name` field.
create_encoding(vendor, cell, name, load) ==
    CASE vendor = "openai" -> get_encoding_in(cell, name, load)
      [] vendor = "anthropic" ->
            [registry |-> cell,
             result |-> IF name = "claude_base" THEN Ok(name)
                        ELSE Err("UnknownEncoding", name)]
      [] vendor = "xai" ->
            [registry |-> cell,
             result |-> IF name = "grok_base" THEN Ok(name)
                        ELSE Err("UnknownEncoding", name)]

\* get_encoding_for_any_model (lib.rs 49-57) once find_vendor_for_model
\* returned `vendor` and the provider's encoding_for_model returned r.
get_encoding_for_any_model_in(cell, vendor, r, load) ==
    IF r.ok THEN create_encoding(vendor, cell, r.val, load)
    ELSE [registry |-> cell, result |-> r]

----------------------------------------------------------------------------
(* core.rs: the merge engine.                                              *)

\* A lookup `map[key]` that aborts the call when the key is absent leaves
\* this marker in the output.
Panic == 0 - 1

Index(map, key) == IF key \in DOMAIN map THEN map[key] ELSE Panic

\* self.encoder.get(bytes).copied().unwrap_or(Rank::MAX)
rank_of(e, bytes) == IF bytes \in DOMAIN e.encoder THEN e.encoder[bytes] ELSE RANK_MAX

\* get_pair_rank, had it looked one entry less far (the entry's own slice).
get_pair_rank_near(e, pc_, ps, i) ==
    IF i + 2 < Len(ps)
    THEN rank_of(e, Slice(pc_, ps[i + 1][1], ps[i + 3][1]))
    ELSE RANK_MAX

\* get_pair_rank (lines 253-261); `parts` is 0-indexed in the code.
get_pair_rank(e, pc_, ps, i) ==
    IF i + 3 < Len(ps)
    THEN rank_of(e, Slice(pc_, ps[i + 1][1], ps[i + 4][1]))
    ELSE RANK_MAX

\* scan_min, had the comparison been `<=`: the last of the smallest ranks.
RECURSIVE scan_min_last(_, _, _, _)
scan_min_last(ps, idx, n, min) ==
    IF idx >= n THEN min
    ELSE scan_min_last(ps, idx + 1, n,
                       IF ps[idx + 1][2] <= min[1] /\ ps[idx + 1][2] # RANK_MAX
                       THEN <<ps[idx + 1][2], idx>> ELSE min)

\* The scan `for (idx, &(_, rank)) in parts[..n].iter().enumerate()` that
\* keeps the first strictly smaller rank (lines 219-221 and 242-246).
RECURSIVE scan_min(_, _, _, _)
scan_min(ps, idx, n, min) ==
    IF idx >= n THEN min
    ELSE scan_min(ps, idx + 1, n,
                  IF ps[idx + 1][2] < min[1] THEN <<ps[idx + 1][2], idx>> ELSE min)

\* lines 211-225: the initial working list and minimum.
merge_init(e, pc_) ==
    LET n  == Len(pc_)
        ps == [i \in 1..(n - 1) |-> <<i - 1, rank_of(e, Slice(pc_, i - 1, i + 1))>>]
              \o << <<n - 1, RANK_MAX>>, <<n, RANK_MAX>> >>
    IN  [parts |-> ps, min_rank |-> scan_min(ps, 0, n - 1, <<RANK_MAX, USIZE_MAX>>)]

\* merge_body, had it left the list as it is.
merge_body_keep(e, pc_, st) == st

\* merge_body, had it removed the winning entry itself instead of the one
\* after it.
merge_body_own(e, pc_, st) ==
    [parts |-> Remove(st.parts, st.min_rank[2] + 1),
     min_rank |-> scan_min(Remove(st.parts, st.min_rank[2] + 1), 0,
                           Len(st.parts) - 2, <<RANK_MAX, USIZE_MAX>>)]

\* lines 229-246: one iteration of the merge loop.
merge_body(e, pc_, st) ==
    LET i   == st.min_rank[2]
        ps1 == IF i > 0
               THEN [st.parts EXCEPT ![i][2] = get_pair_rank(e, pc_, st.parts, i - 1)]
               ELSE st.parts
        ps2 == [ps1 EXCEPT ![i + 1][2] = get_pair_rank(e, pc_, ps1, i)]
        ps3 == Remove(ps2, i + 2)
    IN  [parts |-> ps3,
         min_rank |-> scan_min(ps3, 0, Len(ps3) - 1, <<RANK_MAX, USIZE_MAX>>)]

\* merge_continues, had the loop also stopped when the smallest rank is not
\* at the first entry.
merge_continues_first(st) == st.min_rank[1] # RANK_MAX /\ st.min_rank[2] = 0

\* line 228: the loop condition.
merge_continues(st) == st.min_rank[1] # RANK_MAX

RECURSIVE merge_loop(_, _, _)
merge_loop(e, pc_, st) ==
    IF merge_continues(st) THEN merge_loop(e, pc_, merge_body(e, pc_, st))
    ELSE st.parts

\* byte_pair_merge (lines 208-250)
byte_pair_merge(e, pc_) == merge_loop(e, pc_, merge_init(e, pc_))

\* lines 197-204: the tokens of the final slices.
parts_tokens(e, pc_, ps) ==
    [k \in 1..(Len(ps) - 1) |-> Index(e.encoder, Slice(pc_, ps[k][1], ps[k + 1][1]))]

\* byte_pair_encode (lines 191-205)
byte_pair_encode(e, pc_) ==
    IF Len(pc_) = 1 THEN <<Index(e.encoder, pc_)>>
    ELSE parts_tokens(e, pc_, byte_pair_merge(e, pc_))

----------------------------------------------------------------------------
(* core.rs: encode_ordinary, encode, decode.                               *)

\* mat.as_str().as_bytes() of each match (line 76).
RECURSIVE match_bytes(_, _)
match_bytes(text, ms) ==
    IF ms = <<>> THEN <<>>
    ELSE <<as_bytes(Slice(text, Head(ms)[1], Head(ms)[2]))>>
         \o match_bytes(text, Tail(ms))

\* The pre-tokens of a text: the byte slices of the regex matches.
pieces(e, text) == match_bytes(text, find_iter(e.regex, text))

\* lines 78-84: one pre-token.
encode_piece(e, pc_) ==
    IF pc_ \in DOMAIN e.encoder THEN <<e.encoder[pc_]>> ELSE byte_pair_encode(e, pc_)

\* encode_ordinary (lines 72-88)
RECURSIVE encode_pieces(_, _)
encode_pieces(e, ps) ==
    IF ps = <<>> THEN <<>>
    ELSE encode_piece(e, Head(ps)) \o encode_pieces(e, Tail(ps))

encode_ordinary(e, text) == encode_pieces(e, pieces(e, text))

\* first_disallowed, had the check looked at the first match only.
first_disallowed_head(re, text, p, allowed_special, disallowed_special) ==
    IF find_at(re, text, p) # NoMatch
       /\ Slice(text, find_at(re, text, p)[1], find_at(re, text, p)[2])
             \in disallowed_special \ allowed_special
    THEN find_at(re, text, p)
    ELSE NoMatch

\* lines 100-109: the loop over special_regex.find_iter(text), from offset
\* p on: the first match that is disallowed and not allowed, NoMatch when
\* the iterator runs out.
RECURSIVE first_disallowed(_, _, _, _, _)
first_disallowed(re, text, p, allowed_special, disallowed_special) ==
    LET mat == find_at(re, text, p)
    IN  IF mat = NoMatch THEN NoMatch
        ELSE LET token_text == Slice(text, mat[1], mat[2])
             IN  IF token_text \in disallowed_special
                    /\ token_text \notin allowed_special
                 THEN mat
                 ELSE first_disallowed(re, text, next_search(mat),
                                       allowed_special, disallowed_special)

\* lines 98-111
disallowed_check(e, text, allowed_special, disallowed_special) ==
    IF disallowed_special # {} /\ e.special_regex # None
    THEN first_disallowed(e.special_regex, text, 0, allowed_special, disallowed_special)
    ELSE NoMatch

\* lines 124-132: the loop over special_regex.find_iter(sub), sub being
\* &text[start..], from offset p of sub on: the first match whose text is
\* allowed, as offsets into text; NoMatch when the iterator runs out.
RECURSIVE first_allowed(_, _, _, _, _)
first_allowed(re, text, st, p, allowed_special) ==
    LET mat == find_at(re, Slice(text, st, Len(text)), p)
    IN  IF mat = NoMatch THEN NoMatch
        ELSE LET token_text == Slice(text, st + mat[1], st + mat[2])
             IN  IF token_text \in allowed_special
                 THEN <<st + mat[1], st + mat[2]>>
                 ELSE first_allowed(re, text, st, next_search(mat), allowed_special)

\* next_special, had the match been taken whether allowed or not.
next_special_any(e, text, st, allowed_special) ==
    IF e.special_regex # None
       /\ find_at(e.special_regex, Slice(text, st, Len(text)), 0) # NoMatch
    THEN <<st + find_at(e.special_regex, Slice(text, st, Len(text)), 0)[1],
           st + find_at(e.special_regex, Slice(text, st, Len(text)), 0)[2]>>
    ELSE NoMatch

\* lines 123-133
next_special(e, text, st, allowed_special) ==
    IF e.special_regex # None
    THEN first_allowed(e.special_regex, text, st, 0, allowed_special)
    ELSE NoMatch

\* encode_after, had the text before a special token been left out.
encode_after_drop(e, text, st, toks, found) ==
    IF found = NoMatch
    THEN [start |-> st,
          tokens |-> IF Len(text) > st
                     THEN toks \o encode_ordinary(e, Slice(text, st, Len(text)))
                     ELSE toks,
          break |-> TRUE]
    ELSE [start |-> found[2],
          tokens |-> toks \o (IF Slice(text, found[1], found[2])
                                    \in DOMAIN e.special_tokens_encoder
                              THEN <<e.special_tokens_encoder[Slice(text, found[1], found[2])]>>
                              ELSE <<>>),
          break |-> FALSE]

\* lines 135-150: the rest of an iteration, `found` being the allowed match
\* (NoMatch for None).
encode_after(e, text, st, toks, found) ==
    IF found = NoMatch
    THEN [start |-> st,
          tokens |-> IF Len(text) > st
                     THEN toks \o encode_ordinary(e, Slice(text, st, Len(text)))
                     ELSE toks,
          break |-> TRUE]
    ELSE [start |-> found[2],
          tokens |-> (IF found[1] > st
                      THEN toks \o encode_ordinary(e, Slice(text, st, found[1]))
                      ELSE toks)
                     \o (IF Slice(text, found[1], found[2]) \in DOMAIN e.special_tokens_encoder
                         THEN <<e.special_tokens_encoder[Slice(text, found[1], found[2])]>>
                         ELSE <<>>),
          break |-> FALSE]

\* lines 118-150: one iteration of the loop of encode, from cursor st with
\* output toks: the new cursor, the new output, and whether the loop breaks.
encode_body(e, text, st, toks, allowed_special) ==
    encode_after(e, text, st, toks, next_special(e, text, st, allowed_special))

\* The result of a call that produced the token vector toks.
Returned(toks) ==
    IF \E k \in DOMAIN toks : toks[k] = Panic THEN Err("panic", <<>>) ELSE Ok(toks)

\* lines 117-153: the loop of encode run to its end from cursor st with
\* output toks; b is the outcome of the iteration at st.
RECURSIVE encode_from(_, _, _, _, _)
RECURSIVE encode_next(_, _, _, _)
encode_from(e, text, st, toks, allowed_special) ==
    IF st < Len(text)
    THEN encode_next(e, text, allowed_special,
                     encode_body(e, text, st, toks, allowed_special))
    ELSE Returned(toks)

encode_next(e, text, allowed_special, b) ==
    IF b.break THEN Returned(b.tokens)
    ELSE encode_from(e, text, b.start, b.tokens, allowed_special)

\* CoreBPE::encode(text, allowed_special, disallowed_special), lines 91-154,
\* as one call; bad is the outcome of the disallowed check.
encode_checked(e, text, allowed_special, bad) ==
    IF bad # NoMatch THEN Err("EncodingError", Slice(text, bad[1], bad[2]))
    ELSE encode_from(e, text, 0, <<>>, allowed_special)

encode(e, text, allowed_special, disallowed_special) ==
    encode_checked(e, text, allowed_special,
                   disallowed_check(e, text, allowed_special, disallowed_special))

\* decode_bytes_from, had an unknown token been skipped.
RECURSIVE decode_bytes_skip(_, _, _)
decode_bytes_skip(e, toks, acc) ==
    IF toks = <<>> THEN Ok(acc)
    ELSE IF Head(toks) \in DOMAIN e.decoder
    THEN decode_bytes_skip(e, Tail(toks), acc \o e.decoder[Head(toks)])
    ELSE IF Head(toks) \in DOMAIN e.special_tokens_decoder
    THEN decode_bytes_skip(e, Tail(toks), acc \o e.special_tokens_decoder[Head(toks)])
    ELSE decode_bytes_skip(e, Tail(toks), acc)

\* decode_bytes (lines 157-171)
RECURSIVE decode_bytes_from(_, _, _)
decode_bytes_from(e, toks, acc) ==
    IF toks = <<>> THEN Ok(acc)
    ELSE LET token == Head(toks)
         IN  IF token \in DOMAIN e.decoder
             THEN decode_bytes_from(e, Tail(toks), acc \o e.decoder[token])
             ELSE IF token \in DOMAIN e.special_tokens_decoder
             THEN decode_bytes_from(e, Tail(toks), acc \o e.special_tokens_decoder[token])
             ELSE Err("InvalidToken", token)

decode_bytes(e, toks) == decode_bytes_from(e, toks, <<>>)

\* decode, had each token's bytes been validated on their own.
RECURSIVE decode_each_from(_, _)
decode_each_from(e, toks) ==
    IF toks = <<>> THEN Ok(<<>>)
    ELSE IF ~decode_bytes(e, <<Head(toks)>>).ok
    THEN decode_bytes(e, <<Head(toks)>>)
    ELSE IF ~from_utf8(decode_bytes(e, <<Head(toks)>>).val).ok
    THEN Err("DecodingError", decode_bytes(e, <<Head(toks)>>).val)
    ELSE IF ~decode_each_from(e, Tail(toks)).ok
    THEN decode_each_from(e, Tail(toks))
    ELSE Ok(from_utf8(decode_bytes(e, <<Head(toks)>>).val).val
            \o decode_each_from(e, Tail(toks)).val)

decode_each(e, toks) == decode_each_from(e, toks)

\* decode (lines 174-177); errors.rs 72-76 turns FromUtf8Error into
\* DecodingError.
decode(e, toks) ==
    LET bytes == decode_bytes(e, toks)
    IN  IF ~bytes.ok THEN bytes
        ELSE LET str == from_utf8(bytes.val)
             IN  IF str.ok THEN str ELSE Err("DecodingError", bytes.val)

\* decode_single_token_bytes (lines 180-188)
decode_single_token_bytes(e, token) ==
    IF token \in DOMAIN e.decoder THEN Ok(e.decoder[token])
    ELSE IF token \in DOMAIN e.special_tokens_decoder
    THEN Ok(e.special_tokens_decoder[token])
    ELSE Err("InvalidToken", token)

\* CoreBPE::is_special_token (lines 269-271)
is_special_token(e, token) == token \in DOMAIN e.special_tokens_decoder

\* encode_single_token, had the special tokens not been consulted.
encode_single_token_ordinary(e, text) ==
    IF as_bytes(text) \in DOMAIN e.encoder
    THEN Ok(e.encoder[as_bytes(text)])
    ELSE Err("EncodingError", text)

\* Encoding::encode_single_token (lines 391-407)
encode_single_token(e, text) ==
    IF text \in DOMAIN e.special_tokens_encoder
    THEN Ok(e.special_tokens_encoder[text])
    ELSE IF as_bytes(text) \in DOMAIN e.encoder
    THEN Ok(e.encoder[as_bytes(text)])
    ELSE Err("EncodingError", text)

\* collect, had it dropped the failed elements and kept the others.
RECURSIVE collect_skip_from(_, _)
collect_skip_from(results, acc) ==
    IF results = <<>> THEN Ok(acc)
    ELSE IF ~Head(results).ok THEN collect_skip_from(Tail(results), acc)
    ELSE collect_skip_from(Tail(results), Append(acc, Head(results).val))

\* Iterator::collect into Result<Vec<_>>: the results are taken in order;
\* the first Err is returned as it is, the values gathered so far dropped
\* and the later elements not computed.  acc holds the values so far.
RECURSIVE collect_from(_, _)
collect_from(results, acc) ==
    IF results = <<>> THEN Ok(acc)
    ELSE IF ~Head(results).ok THEN Head(results)
    ELSE collect_from(Tail(results), Append(acc, Head(results).val))

\* Encoding::encode_batch (lines 362-373)
encode_batch(e, texts, allowed_special, disallowed_special) ==
    collect_from([i \in DOMAIN texts |->
                    encode(e, texts[i], allowed_special, disallowed_special)], <<>>)

\* Encoding::encode_ordinary_batch (lines 376-378); it collects into a Vec,
\* so it ends otherwise than with a list only when an element aborts.
encode_ordinary_batch(e, texts) ==
    collect_from([i \in DOMAIN texts |-> Returned(encode_ordinary(e, texts[i]))], <<>>)

\* Encoding::decode_batch (lines 381-383)
decode_batch(e, token_sequences) ==
    collect_from([i \in DOMAIN token_sequences |-> decode(e, token_sequences[i])], <<>>)

\* Encoding::decode_bytes_batch (lines 386-388)
decode_bytes_batch(e, token_sequences) ==
    collect_from([i \in DOMAIN token_sequences |->
                    decode_bytes(e, token_sequences[i])], <<>>)

----------------------------------------------------------------------------
(* The inputs the calls are made with.                                     *)

\* u32::MAX as a token (see RANK_MAX).
TOKEN_MAX == 2147483647

\* "<|endoftext|>", "<|fim_prefix|>", "th", "at", " é"
Chunks == << ENDOFTEXT, FIM_PREFIX, <<116,104>>, <<97,116>>, <<32,233>> >>

Texts == Concats(Chunks, MaxChunks)

\* The names the allowed_special / disallowed_special arguments are made of.
ArgNames == {ENDOFTEXT, FIM_PREFIX}

\* Tokens handed to the decoders: "t", the two bytes of "é", "th", one past
\* the basic vocabulary, special ids and u32::MAX.
TokenPool == {116, 195, 169, 256, 389, 50256, 100257, TOKEN_MAX}

TokenLists == SeqsUpTo(TokenPool, MaxTokens)

\* The lines vocabulary files are made of: "YQ== 0", "Yg== 0", "Yg== 1",
\* "", a tab, "YQ==", "YQ== 1 2", "Y!== 0", "YQ== x", "  YWI=  +7 " and
\* "YQ== 5" followed by a carriage return.
LinePool ==
    << <<89,81,61,61,32,48>>, <<89,103,61,61,32,48>>, <<89,103,61,61,32,49>>,
       <<>>, <<9>>, <<89,81,61,61>>, <<89,81,61,61,32,49,32,50>>,
       <<89,33,61,61,32,48>>, <<89,81,61,61,32,120>>,
       <<32,32,89,87,73,61,32,32,43,55,32>>, <<89,81,61,61,32,53,13>> >>

\* The files: at most MaxLines lines, each ended by a line feed.
Files == Concats([i \in DOMAIN LinePool |-> LinePool[i] \o <<10>>], MaxLines)

\* Encoding names get_encoding is called with: the registered ones,
\* "o200k_harmony" and "nope".
EncodingNames == ENCODING_REGISTRY \cup {"o200k_harmony", "nope"}

\* Model names encoding_name_for_model is called with:
\*   "gpt-4"
\*   "gpt-4o"
\*   "text-davinci-003"
\*   "gpt-4-0314"
\*   "gpt-4o-2024-05-13"
\*   "gpt-3.5-turbo-0301"
\*   "ft:gpt-4:acme"
\*   "ft:gpt-4o:acme"
\*   "gpt-oss-20b"
\*   "unknown-model"
ModelNames == {
    <<103,112,116,45,52>>,
    <<103,112,116,45,52,111>>,
    <<116,101,120,116,45,100,97,118,105,110,99,105,45,48,48,51>>,
    <<103,112,116,45,52,45,48,51,49,52>>,
    <<103,112,116,45,52,111,45,50,48,50,52,45,48,53,45,49,51>>,
    <<103,112,116,45,51,46,53,45,116,117,114,98,111,45,48,51,48,49>>,
    <<102,116,58,103,112,116,45,52,58,97,99,109,101>>,
    <<102,116,58,103,112,116,45,52,111,58,97,99,109,101>>,
    <<103,112,116,45,111,115,115,45,50,48,98>>,
    <<117,110,107,110,111,119,110,45,109,111,100,101,108>> }

NoCall == [op |-> "none", text |-> <<>>, allowed_special |-> {},
           disallowed_special |-> {}, tokens |-> <<>>]

Call(op, text, allowed_special, disallowed_special, toks) ==
    [op |-> op, text |-> text, allowed_special |-> allowed_special,
     disallowed_special |-> disallowed_special, tokens |-> toks]

----------------------------------------------------------------------------
(* The state machine: an Encoding from the registry, and one call on it.   *)
(* An Encoding never changes once built (every method of core.rs takes     *)
(* &self and no field has interior mutability), so the state holds which   *)
(* Encoding is in use and Encodings holds the values.                      *)

EncodingIds == ENCODING_REGISTRY \X (0..(MaxSeeds - 1))

Encodings == Table([id \in EncodingIds |-> get_encoding(id[1], id[2])])

\* The Encoding the current call runs on.
E == Encodings[enc]

\* The pre-tokens the texts give rise to under each Encoding.
PreTokens ==
    Table([id \in EncodingIds |->
             UNION {Range(pieces(Encodings[id], text)) : text \in Texts}])

Init ==
    /\ enc \in {id \in EncodingIds :
                   \A s \in 0..(id[2] - 1) : Encodings[<<id[1], s>>] # Encodings[id]}
    /\ pc = "idle"
    /\ call = NoCall
    /\ start = 0
    /\ tokens = <<>>
    /\ piece = <<>>
    /\ parts = <<>>
    /\ min_rank = <<RANK_MAX, USIZE_MAX>>
    /\ iters = 0
    /\ result = NoResult
    /\ custom = None
    /\ shared = None
    /\ threads = <<>>
    /\ registry = None
    /\ log = <<>>

\* Encoding::encode_ordinary(text)
EncodeOrdinary ==
    /\ pc = "idle"
    /\ \E text \in Texts :
          /\ call' = Call("encode_ordinary", text, {}, {}, <<>>)
          /\ result' = Returned(encode_ordinary(E, text))
    /\ pc' = "done"
    /\ UNCHANGED <<enc, start, tokens, piece, parts, min_rank, iters>>
    /\ UNCHANGED others

\* Encoding::encode(text, allowed_special, disallowed_special), lines 97-114:
\* the disallowed check, then the loop is entered.
EncodeBegin ==
    /\ pc = "idle"
    /\ \E text \in Texts, allowed_special \in SUBSET ArgNames,
          disallowed_special \in SUBSET ArgNames :
          LET bad == disallowed_check(E, text, allowed_special, disallowed_special)
          IN  /\ call' = Call("encode", text, allowed_special, disallowed_special, <<>>)
              /\ IF bad # NoMatch
                 THEN /\ result' = Err("EncodingError", Slice(text, bad[1], bad[2]))
                      /\ pc' = "done"
                 ELSE /\ result' = result
                      /\ pc' = "encode"
    /\ start' = 0
    /\ tokens' = <<>>
    /\ UNCHANGED <<enc, piece, parts, min_rank, iters>>
    /\ UNCHANGED others

\* lines 117-151: one iteration of the loop; a `break` returns Ok(tokens).
EncodeStep ==
    /\ pc = "encode"
    /\ start < Len(call.text)
    /\ \E b \in {encode_body(E, call.text, start, tokens, call.allowed_special)} :
          /\ start' = b.start
          /\ tokens' = b.tokens
          /\ pc' = IF b.break THEN "done" ELSE "encode"
          /\ result' = IF b.break THEN Returned(b.tokens) ELSE result
    /\ UNCHANGED <<enc, call, piece, parts, min_rank, iters>>
    /\ UNCHANGED others

\* lines 117 and 153: the loop condition fails, Ok(tokens) is returned.
EncodeReturn ==
    /\ pc = "encode"
    /\ ~(start < Len(call.text))
    /\ pc' = "done"
    /\ result' = Returned(tokens)
    /\ UNCHANGED <<enc, call, start, tokens, piece, parts, min_rank, iters>>
    /\ UNCHANGED others

\* Encoding::decode_bytes(tokens)
DecodeBytes ==
    /\ pc = "idle"
    /\ \E toks \in TokenLists :
          /\ call' = Call("decode_bytes", <<>>, {}, {}, toks)
          /\ result' = decode_bytes(E, toks)
    /\ pc' = "done"
    /\ UNCHANGED <<enc, start, tokens, piece, parts, min_rank, iters>>
    /\ UNCHANGED others

\* Encoding::decode(tokens)
Decode ==
    /\ pc = "idle"
    /\ \E toks \in TokenLists :
          /\ call' = Call("decode", <<>>, {}, {}, toks)
          /\ result' = decode(E, toks)
    /\ pc' = "done"
    /\ UNCHANGED <<enc, start, tokens, piece, parts, min_rank, iters>>
    /\ UNCHANGED others

\* Encoding::decode_single_token_bytes(token)
DecodeSingleTokenBytes ==
    /\ pc = "idle"
    /\ \E token \in TokenPool :
          /\ call' = Call("decode_single_token_bytes", <<>>, {}, {}, <<token>>)
          /\ result' = decode_single_token_bytes(E, token)
    /\ pc' = "done"
    /\ UNCHANGED <<enc, start, tokens, piece, parts, min_rank, iters>>
    /\ UNCHANGED others

\* Encoding::encode_single_token(text)
EncodeSingleToken ==
    /\ pc = "idle"
    /\ \E text \in Texts :
          /\ call' = Call("encode_single_token", text, {}, {}, <<>>)
          /\ result' = encode_single_token(E, text)
    /\ pc' = "done"
    /\ UNCHANGED <<enc, start, tokens, piece, parts, min_rank, iters>>
    /\ UNCHANGED others

\* Encoding::is_special_token(token)
IsSpecialToken ==
    /\ pc = "idle"
    /\ \E token \in TokenPool :
          /\ call' = Call("is_special_token", <<>>, {}, {}, <<token>>)
          /\ result' = Ok(is_special_token(E, token))
    /\ pc' = "done"
    /\ UNCHANGED <<enc, start, tokens, piece, parts, min_rank, iters>>
    /\ UNCHANGED others

\* byte_pair_encode(piece) as encode_ordinary reaches it (lines 79-83): on a
\* pre-token that is not itself a key.  A one-byte piece returns at once
\* (lines 192-194); otherwise byte_pair_merge starts (lines 211-225).
BytePairEncodeBegin ==
    /\ pc = "idle"
    /\ \E p \in PreTokens[enc] :
          /\ p \notin DOMAIN E.encoder
          /\ call' = Call("byte_pair_encode", <<>>, {}, {}, <<>>)
          /\ piece' = p
          /\ IF Len(p) = 1
             THEN /\ pc' = "done"
                  /\ result' = Returned(byte_pair_encode(E, p))
                  /\ UNCHANGED <<parts, min_rank>>
             ELSE /\ pc' = "merge"
                  /\ result' = result
                  /\ parts' = merge_init(E, p).parts
                  /\ min_rank' = merge_init(E, p).min_rank
    /\ UNCHANGED <<enc, start, tokens, iters>>
    /\ UNCHANGED others

\* lines 228-247: one iteration of the merge loop.
BytePairMergeStep ==
    /\ pc = "merge"
    /\ merge_continues([parts |-> parts, min_rank |-> min_rank])
    /\ LET st == merge_body(E, piece, [parts |-> parts, min_rank |-> min_rank])
       IN  /\ parts' = st.parts
           /\ min_rank' = st.min_rank
    /\ iters' = iters + 1
    /\ UNCHANGED <<enc, pc, call, start, tokens, piece, result>>
    /\ UNCHANGED others

\* lines 228, 249 and 197-204: the loop ends, byte_pair_merge returns parts
\* and byte_pair_encode maps the slices to tokens.
BytePairMergeReturn ==
    /\ pc = "merge"
    /\ ~merge_continues([parts |-> parts, min_rank |-> min_rank])
    /\ pc' = "done"
    /\ result' = Returned(parts_tokens(E, piece, parts))
    /\ UNCHANGED <<enc, call, start, tokens, piece, parts, min_rank, iters>>
    /\ UNCHANGED others

Next ==
    \/ EncodeOrdinary
    \/ EncodeBegin
    \/ EncodeStep
    \/ EncodeReturn
    \/ DecodeBytes
    \/ Decode
    \/ DecodeSingleTokenBytes
    \/ EncodeSingleToken
    \/ IsSpecialToken
    \/ BytePairEncodeBegin
    \/ BytePairMergeStep
    \/ BytePairMergeReturn

Spec == Init /\ [][Next]_vars

----------------------------------------------------------------------------
(* The merge engine alone: byte_pair_encode on the pre-tokens, its loop    *)
(* taken iteration by iteration.  The loop is straight-line code, so an    *)
(* enabled iteration or return is eventually taken.                        *)

NextMerge ==
    \/ BytePairEncodeBegin
    \/ BytePairMergeStep
    \/ BytePairMergeReturn

SpecMerge ==
    /\ Init
    /\ [][NextMerge]_vars
    /\ WF_vars(BytePairMergeStep)
    /\ WF_vars(BytePairMergeReturn)

----------------------------------------------------------------------------
(* Building an Encoding from a vocabulary file: parse_tiktoken_bpe, then   *)
(* Encoding::new on the table it returns.                                  *)

InitLoader ==
    /\ enc = <<"r50k_base", 0>>
    /\ pc = "idle"
    /\ call = NoCall
    /\ start = 0
    /\ tokens = <<>>
    /\ piece = <<>>
    /\ parts = <<>>
    /\ min_rank = <<RANK_MAX, USIZE_MAX>>
    /\ iters = 0
    /\ result = NoResult
    /\ custom = None
    /\ shared = None
    /\ threads = <<>>
    /\ registry = None
    /\ log = <<>>

\* parse_tiktoken_bpe(content)
ParseTiktokenBpe ==
    /\ pc = "idle"
    /\ \E content \in Files :
          /\ call' = Call("parse_tiktoken_bpe", content, {}, {}, <<>>)
          /\ result' = parse_tiktoken_bpe(content)
    /\ pc' = "done"
    /\ UNCHANGED <<enc, start, tokens, piece, parts, min_rank, iters, custom>>
    /\ UNCHANGED <<shared, threads, registry, log>>

\* Encoding::new(name, mergeable_ranks, special_tokens, pattern) on the
\* table the loader returned, with the special tokens and the pattern of
\* r50k_base.
EncodingNew ==
    /\ pc = "done" /\ call.op = "parse_tiktoken_bpe" /\ result.ok
    /\ \E d \in decoders_new(result.val) :
          custom' = [Encoding_new("custom", result.val, <<(<<ENDOFTEXT, 50256>>)>>,
                                  R50K_PAT_STR, 0)
                        EXCEPT !.decoder = d]
    /\ pc' = "built"
    /\ UNCHANGED <<enc, call, start, tokens, piece, parts, min_rank, iters, result>>
    /\ UNCHANGED <<shared, threads, registry, log>>

NextLoader ==
    \/ ParseTiktokenBpe
    \/ EncodingNew

SpecLoader == InitLoader /\ [][NextLoader]_vars

----------------------------------------------------------------------------
(* Several threads calling one shared Encoding (&Encoding is Sync): each   *)
(* call keeps its locals on its own stack, and the loop of encode is       *)
(* interleaved with the other threads' calls iteration by iteration.       *)

Threads == 1..MaxThreads

\* "<|endoftext|>" and "th" in the texts, "t", "th" and "<|endoftext|>" of
\* r50k_base as tokens.
ThreadTexts == Concats(<<ENDOFTEXT, <<116,104>> >>, 2)
ThreadTokens == {116, 256, 50256}

\* A thread that has made no call yet.
Idle == [pc |-> "idle", call |-> NoCall, start |-> 0, tokens |-> <<>>,
         result |-> NoResult]

\* The thread after a call that returned at once.
Finished(c, r) == [pc |-> "done", call |-> c, start |-> 0, tokens |-> <<>>,
                   result |-> r]

\* A method that, unlike the &self methods of core.rs, takes the special
\* regex out of the Encoding it is called on.
self_after_take(e) == [e EXCEPT !.special_regex = None]

\* The Encoding after a step of a call on it: every method of CoreBPE and
\* Encoding takes &self and no field has interior mutability.
self_after(e) == e

InitThreads ==
    /\ enc \in {<<"r50k_base", 0>>, <<"p50k_edit", 1>>}
    /\ pc = "idle"
    /\ call = NoCall
    /\ start = 0
    /\ tokens = <<>>
    /\ piece = <<>>
    /\ parts = <<>>
    /\ min_rank = <<RANK_MAX, USIZE_MAX>>
    /\ iters = 0
    /\ result = NoResult
    /\ custom = None
    /\ shared = Encodings[enc]
    /\ threads = [t \in Threads |-> Idle]
    /\ registry = None
    /\ log = <<>>

\* Thread t calls encode_ordinary(text).
ThreadEncodeOrdinary(t) ==
    /\ threads[t].pc = "idle"
    /\ \E text \in ThreadTexts :
          threads' = [threads EXCEPT ![t] =
                         Finished(Call("encode_ordinary", text, {}, {}, <<>>),
                                  Returned(encode_ordinary(shared, text)))]
    /\ shared' = self_after(shared)
    /\ UNCHANGED <<enc, call_vars, custom, registry, log>>

\* Thread t calls encode (lines 97-114): the disallowed check, then the
\* loop is entered.
ThreadEncodeBegin(t) ==
    /\ threads[t].pc = "idle"
    /\ \E text \in ThreadTexts, allowed_special \in SUBSET {ENDOFTEXT},
          disallowed_special \in SUBSET {ENDOFTEXT} :
          \E bad \in {disallowed_check(shared, text, allowed_special, disallowed_special)} :
             threads' = [threads EXCEPT ![t] =
                [pc |-> IF bad # NoMatch THEN "done" ELSE "encode",
                 call |-> Call("encode", text, allowed_special, disallowed_special, <<>>),
                 start |-> 0,
                 tokens |-> <<>>,
                 result |-> IF bad # NoMatch
                            THEN Err("EncodingError", Slice(text, bad[1], bad[2]))
                            ELSE NoResult]]
    /\ shared' = self_after(shared)
    /\ UNCHANGED <<enc, call_vars, custom, registry, log>>

\* lines 117-151 in thread t: one iteration of the loop of encode.
ThreadEncodeStep(t) ==
    /\ threads[t].pc = "encode"
    /\ threads[t].start < Len(threads[t].call.text)
    /\ \E b \in {encode_body(shared, threads[t].call.text, threads[t].start,
                              threads[t].tokens, threads[t].call.allowed_special)} :
          threads' = [threads EXCEPT ![t] =
             [pc |-> IF b.break THEN "done" ELSE "encode",
              call |-> threads[t].call,
              start |-> b.start,
              tokens |-> b.tokens,
              result |-> IF b.break THEN Returned(b.tokens) ELSE NoResult]]
    /\ shared' = self_after(shared)
    /\ UNCHANGED <<enc, call_vars, custom, registry, log>>

\* lines 117 and 153 in thread t: the loop condition fails.
ThreadEncodeReturn(t) ==
    /\ threads[t].pc = "encode"
    /\ ~(threads[t].start < Len(threads[t].call.text))
    /\ threads' = [threads EXCEPT ![t].pc = "done",
                                  ![t].result = Returned(threads[t].tokens)]
    /\ shared' = self_after(shared)
    /\ UNCHANGED <<enc, call_vars, custom, registry, log>>

\* Thread t calls decode_bytes(tokens).
ThreadDecodeBytes(t) ==
    /\ threads[t].pc = "idle"
    /\ \E toks \in SeqsUpTo(ThreadTokens, 1) :
          threads' = [threads EXCEPT ![t] =
                         Finished(Call("decode_bytes", <<>>, {}, {}, toks),
                                  decode_bytes(shared, toks))]
    /\ shared' = self_after(shared)
    /\ UNCHANGED <<enc, call_vars, custom, registry, log>>

\* Thread t calls decode(tokens).
ThreadDecode(t) ==
    /\ threads[t].pc = "idle"
    /\ \E toks \in SeqsUpTo(ThreadTokens, 1) :
          threads' = [threads EXCEPT ![t] =
                         Finished(Call("decode", <<>>, {}, {}, toks),
                                  decode(shared, toks))]
    /\ shared' = self_after(shared)
    /\ UNCHANGED <<enc, call_vars, custom, registry, log>>

\* Thread t calls decode_single_token_bytes(token).
ThreadDecodeSingleTokenBytes(t) ==
    /\ threads[t].pc = "idle"
    /\ \E token \in ThreadTokens :
          threads' = [threads EXCEPT ![t] =
                         Finished(Call("decode_single_token_bytes", <<>>, {}, {}, <<token>>),
                                  decode_single_token_bytes(shared, token))]
    /\ shared' = self_after(shared)
    /\ UNCHANGED <<enc, call_vars, custom, registry, log>>

\* Thread t calls encode_single_token(text).
ThreadEncodeSingleToken(t) ==
    /\ threads[t].pc = "idle"
    /\ \E text \in ThreadTexts :
          threads' = [threads EXCEPT ![t] =
                         Finished(Call("encode_single_token", text, {}, {}, <<>>),
                                  encode_single_token(shared, text))]
    /\ shared' = self_after(shared)
    /\ UNCHANGED <<enc, call_vars, custom, registry, log>>

NextThreads ==
    \E t \in Threads :
       \/ ThreadEncodeOrdinary(t)
       \/ ThreadEncodeBegin(t)
       \/ ThreadEncodeStep(t)
       \/ ThreadEncodeReturn(t)
       \/ ThreadDecodeBytes(t)
       \/ ThreadDecode(t)
       \/ ThreadDecodeSingleTokenBytes(t)
       \/ ThreadEncodeSingleToken(t)

SpecThreads == InitThreads /\ [][NextThreads]_vars

----------------------------------------------------------------------------
(* The registry of encodings and the model tables: a run of get_encoding   *)
(* and encoding_name_for_model calls in one process.                       *)

InitRegistry ==
    /\ enc = <<"r50k_base", 0>>
    /\ pc = "idle"
    /\ call = NoCall
    /\ start = 0
    /\ tokens = <<>>
    /\ piece = <<>>
    /\ parts = <<>>
    /\ min_rank = <<RANK_MAX, USIZE_MAX>>
    /\ iters = 0
    /\ result = NoResult
    /\ custom = None
    /\ shared = None
    /\ threads = <<>>
    /\ registry = None
    /\ log = <<>>

\* get_encoding(name).  `load` is whether load_tiktoken_bpe succeeds should
\* the constructor run; `storage` numbers the Encoding values built so far:
\* Encoding::new collects new maps on every call of a constructor.
GetEncoding ==
    /\ Len(log) < MaxCalls
    /\ \E name \in EncodingNames :
       \E load \in IF name \in get_or_init(registry).v THEN {"ok", "fail"} ELSE {"none"} :
          \E r \in {get_encoding_in(registry, name, load)} :
             /\ registry' = r.registry
             /\ log' = Append(log, [op |-> "get_encoding", name |-> name,
                                     load |-> load, result |-> r.result,
                                     storage |-> IF r.result.ok THEN Len(log) + 1 ELSE 0])
    /\ UNCHANGED <<enc, call_vars, custom, shared, threads>>

\* encoding_name_for_model(model_name)
EncodingNameForModel ==
    /\ Len(log) < MaxCalls
    /\ \E model_name \in ModelNames :
       \E r \in encoding_names_for_model(model_name) :
          log' = Append(log, [op |-> "encoding_name_for_model", name |-> model_name,
                              load |-> "none", result |-> r, storage |-> 0])
    /\ UNCHANGED <<enc, call_vars, custom, shared, threads, registry>>

NextRegistry ==
    \/ GetEncoding
    \/ EncodingNameForModel

SpecRegistry == InitRegistry /\ [][NextRegistry]_vars

----------------------------------------------------------------------------
(* From a model name to an Encoding: a run of encoding_for_model and       *)
(* get_encoding_for_any_model calls in one process.                        *)

\* The calls of a run.
MaxLookups == 2

\* Model names the calls are made with: those of ModelNames and
\*   "o1", "claude-3-opus", "claude-9", "grok-1"
AnyModelNames ==
    ModelNames \cup { <<111,49>>,
                      <<99,108,97,117,100,101,45,51,45,111,112,117,115>>,
                      <<99,108,97,117,100,101,45,57>>,
                      <<103,114,111,107,45,49>> }

\* Whether load_tiktoken_bpe succeeds, should get_encoding run a constructor
\* of the registry for `name`.
Loads(cell, name) ==
    IF name \in get_or_init(cell).v THEN {"ok", "fail"} ELSE {"none"}

\* encoding_for_model(model_name)
EncodingForModel ==
    /\ Len(log) < MaxLookups
    /\ \E model_name \in AnyModelNames :
       \E n \in encoding_names_for_model(model_name) :
       \E load \in IF n.ok THEN Loads(registry, n.val) ELSE {"none"} :
       \E r \in {encoding_for_model_in(registry, n, load)} :
          /\ registry' = r.registry
          /\ log' = Append(log, [op |-> "encoding_for_model", name |-> model_name,
                                  load |-> load, result |-> r.result,
                                  storage |-> IF r.result.ok THEN Len(log) + 1 ELSE 0])
    /\ UNCHANGED <<enc, call_vars, custom, shared, threads>>

\* get_encoding_for_any_model(model), a provider supporting the model
GetEncodingForAnyModel ==
    /\ Len(log) < MaxLookups
    /\ \E model \in AnyModelNames :
       \E vendor \in find_vendor_for_model(model) :
       \E n \in vendor_encoding_for_model(vendor, model) :
       \E load \in IF n.ok /\ vendor = "openai" THEN Loads(registry, n.val) ELSE {"none"} :
       \E r \in {get_encoding_for_any_model_in(registry, vendor, n, load)} :
          /\ registry' = r.registry
          /\ log' = Append(log, [op |-> "get_encoding_for_any_model", name |-> model,
                                  load |-> load, result |-> r.result,
                                  storage |-> IF r.result.ok THEN Len(log) + 1 ELSE 0])
    /\ UNCHANGED <<enc, call_vars, custom, shared, threads>>

\* get_encoding_for_any_model(model), no provider supporting the model
\* (lib.rs 54-56)
GetEncodingForAnyModelNone ==
    /\ Len(log) < MaxLookups
    /\ \E model \in AnyModelNames :
          /\ find_vendor_for_model(model) = {}
          /\ log' = Append(log, [op |-> "get_encoding_for_any_model", name |-> model,
                                  load |-> "none", result |-> Err("UnknownModel", model),
                                  storage |-> 0])
    /\ UNCHANGED <<enc, call_vars, custom, shared, threads, registry>>

NextModels ==
    \/ EncodingForModel
    \/ GetEncodingForAnyModel
    \/ GetEncodingForAnyModelNone

SpecModels == InitRegistry /\ [][NextModels]_vars

----------------------------------------------------------------------------
(* The batch calls on a named Encoding.  In `call`, text holds the list of *)
(* texts and tokens the list of token sequences.                           *)

\* "th", "<|endoftext|>", " é"
BatchTexts == SeqsUpTo({<<116,104>>, ENDOFTEXT, <<32,233>>}, MaxBatch)

\* "t", the first byte of "é" alone, "é", and a token no table has.
BatchTokens == SeqsUpTo({<<116>>, <<195>>, <<195,169>>, <<TOKEN_MAX>>}, MaxBatch)

InitBatch ==
    /\ enc \in {<<"r50k_base", 0>>, <<"cl100k_base", 0>>}
    /\ pc = "idle"
    /\ call = NoCall
    /\ start = 0
    /\ tokens = <<>>
    /\ piece = <<>>
    /\ parts = <<>>
    /\ min_rank = <<RANK_MAX, USIZE_MAX>>
    /\ iters = 0
    /\ result = NoResult
    /\ custom = None
    /\ shared = None
    /\ threads = <<>>
    /\ registry = None
    /\ log = <<>>

\* Encoding::encode_batch(texts, allowed_special, disallowed_special)
EncodeBatch ==
    /\ pc = "idle"
    /\ \E texts \in BatchTexts, allowed_special \in SUBSET {ENDOFTEXT},
          disallowed_special \in SUBSET {ENDOFTEXT} :
          /\ call' = Call("encode_batch", texts, allowed_special, disallowed_special, <<>>)
          /\ result' = encode_batch(E, texts, allowed_special, disallowed_special)
    /\ pc' = "done"
    /\ UNCHANGED <<enc, start, tokens, piece, parts, min_rank, iters>>
    /\ UNCHANGED others

\* Encoding::encode_ordinary_batch(texts)
EncodeOrdinaryBatch ==
    /\ pc = "idle"
    /\ \E texts \in BatchTexts :
          /\ call' = Call("encode_ordinary_batch", texts, {}, {}, <<>>)
          /\ result' = encode_ordinary_batch(E, texts)
    /\ pc' = "done"
    /\ UNCHANGED <<enc, start, tokens, piece, parts, min_rank, iters>>
    /\ UNCHANGED others

\* Encoding::decode_batch(token_sequences)
DecodeBatch ==
    /\ pc = "idle"
    /\ \E token_sequences \in BatchTokens :
          /\ call' = Call("decode_batch", <<>>, {}, {}, token_sequences)
          /\ result' = decode_batch(E, token_sequences)
    /\ pc' = "done"
    /\ UNCHANGED <<enc, start, tokens, piece, parts, min_rank, iters>>
    /\ UNCHANGED others

\* Encoding::decode_bytes_batch(token_sequences)
DecodeBytesBatch ==
    /\ pc = "idle"
    /\ \E token_sequences \in BatchTokens :
          /\ call' = Call("decode_bytes_batch", <<>>, {}, {}, token_sequences)
          /\ result' = decode_bytes_batch(E, token_sequences)
    /\ pc' = "done"
    /\ UNCHANGED <<enc, start, tokens, piece, parts, min_rank, iters>>
    /\ UNCHANGED others

NextBatch ==
    \/ EncodeBatch
    \/ EncodeOrdinaryBatch
    \/ DecodeBatch
    \/ DecodeBytesBatch

SpecBatch == InitBatch /\ [][NextBatch]_vars

----------------------------------------------------------------------------
(* An Encoding built by Encoding::new (public, core.rs 297-305) from a     *)
(* table and a special-token map of the caller, and one call on it.        *)

\* The output of a running `encode` is followed up to this many tokens.
MaxOut == 6

\* The tables handed to Encoding::new: the basic vocabulary, {"a": 0} and
\* {"t": 0, "h": 1, "th": 2}.
CustomTables ==
    { create_basic_vocabulary,
      InsertAll(<< <<(<<97>>), 0>> >>),
      InsertAll(<< <<(<<116>>), 0>>, <<(<<104>>), 1>>, <<(<<116,104>>), 2>> >>) }

\* The special-token maps handed to Encoding::new, as the entries inserted:
\* none, {"<|endoftext|>": 50256}, {"": 7} and both.
CustomSpecials ==
    { <<>>,
      << <<ENDOFTEXT, 50256>> >>,
      << <<(<<>>), 7>> >>,
      << <<ENDOFTEXT, 50256>>, <<(<<>>), 7>> >> }

\* "th", "a", "<|endoftext|>"
CustomTexts == Concats(<< <<116,104>>, <<97>>, ENDOFTEXT >>, MaxChunks)

CustomArgNames == {ENDOFTEXT, <<>>}

InitCustom ==
    /\ enc = <<"r50k_base", 0>>
    /\ pc = "idle"
    /\ call = NoCall
    /\ start = 0
    /\ tokens = <<>>
    /\ piece = <<>>
    /\ parts = <<>>
    /\ min_rank = <<RANK_MAX, USIZE_MAX>>
    /\ iters = 0
    /\ result = NoResult
    /\ custom = None
    /\ shared = None
    /\ threads = <<>>
    /\ registry = None
    /\ log = <<>>

\* Encoding::new(name, mergeable_ranks, special_tokens, pattern) with the
\* pattern of r50k_base.
EncodingNewCustom ==
    /\ pc = "idle"
    /\ \E mergeable_ranks \in CustomTables, entries \in CustomSpecials,
          seed \in 0..(MaxSeeds - 1) :
          custom' = Encoding_new("custom", mergeable_ranks, entries, R50K_PAT_STR, seed)
    /\ pc' = "built"
    /\ UNCHANGED <<enc, call, start, tokens, piece, parts, min_rank, iters, result>>
    /\ UNCHANGED <<shared, threads, registry, log>>

\* Encoding::encode_ordinary(text) on the Encoding built.
CustomEncodeOrdinary ==
    /\ pc = "built"
    /\ \E text \in CustomTexts :
          /\ call' = Call("encode_ordinary", text, {}, {}, <<>>)
          /\ result' = Returned(encode_ordinary(custom, text))
    /\ pc' = "done"
    /\ UNCHANGED <<enc, start, tokens, piece, parts, min_rank, iters, custom>>
    /\ UNCHANGED <<shared, threads, registry, log>>

\* Encoding::encode(text, allowed_special, disallowed_special) on the
\* Encoding built, lines 97-114: the disallowed check, then the loop is
\* entered.
CustomEncodeBegin ==
    /\ pc = "built"
    /\ \E text \in CustomTexts, allowed_special \in SUBSET CustomArgNames,
          disallowed_special \in SUBSET CustomArgNames :
          \E bad \in {disallowed_check(custom, text, allowed_special, disallowed_special)} :
              /\ call' = Call("encode", text, allowed_special, disallowed_special, <<>>)
              /\ IF bad # NoMatch
                 THEN /\ result' = Err("EncodingError", Slice(text, bad[1], bad[2]))
                      /\ pc' = "done"
                 ELSE /\ result' = result
                      /\ pc' = "encode"
    /\ start' = 0
    /\ tokens' = <<>>
    /\ UNCHANGED <<enc, piece, parts, min_rank, iters, custom>>
    /\ UNCHANGED <<shared, threads, registry, log>>

\* lines 117-151: one iteration of the loop; a `break` returns Ok(tokens).
CustomEncodeStep ==
    /\ pc = "encode"
    /\ start < Len(call.text)
    /\ Len(tokens) < MaxOut
    /\ \E b \in {encode_body(custom, call.text, start, tokens, call.allowed_special)} :
          /\ start' = b.start
          /\ tokens' = b.tokens
          /\ pc' = IF b.break THEN "done" ELSE "encode"
          /\ result' = IF b.break THEN Returned(b.tokens) ELSE result
    /\ UNCHANGED <<enc, call, piece, parts, min_rank, iters, custom>>
    /\ UNCHANGED <<shared, threads, registry, log>>

\* lines 117 and 153: the loop condition fails, Ok(tokens) is returned.
CustomEncodeReturn ==
    /\ pc = "encode"
    /\ ~(start < Len(call.text))
    /\ pc' = "done"
    /\ result' = Returned(tokens)
    /\ UNCHANGED <<enc, call, start, tokens, piece, parts, min_rank, iters, custom>>
    /\ UNCHANGED <<shared, threads, registry, log>>

NextCustom ==
    \/ EncodingNewCustom
    \/ CustomEncodeOrdinary
    \/ CustomEncodeBegin
    \/ CustomEncodeStep
    \/ CustomEncodeReturn

\* The loop of encode is straight-line code of the calling thread: an
\* iteration or a return that can be taken is taken.
SpecCustom ==
    /\ InitCustom
    /\ [][NextCustom]_vars
    /\ WF_vars(CustomEncodeStep)
    /\ WF_vars(CustomEncodeReturn)

----------------------------------------------------------------------------
(* encode_ordinary on texts made of words of which some are keys of the    *)
(* merge table as a whole.                                                 *)

\* " the", "th", "and", " é", ","
Words == << <<32,116,104,101>>, <<116,104>>, <<97,110,100>>, <<32,233>>, <<44>> >>

\* The texts: at most MaxChunks words.
WordTexts == Concats(Words, MaxChunks)

InitWords ==
    /\ enc \in {id \in EncodingIds : id[2] = 0}
    /\ pc = "idle"
    /\ call = NoCall
    /\ start = 0
    /\ tokens = <<>>
    /\ piece = <<>>
    /\ parts = <<>>
    /\ min_rank = <<RANK_MAX, USIZE_MAX>>
    /\ iters = 0
    /\ result = NoResult
    /\ custom = None
    /\ shared = None
    /\ threads = <<>>
    /\ registry = None
    /\ log = <<>>

\* Encoding::encode_ordinary(text)
EncodeOrdinaryWords ==
    /\ pc = "idle"
    /\ \E text \in WordTexts :
          /\ call' = Call("encode_ordinary", text, {}, {}, <<>>)
          /\ result' = Returned(encode_ordinary(E, text))
    /\ pc' = "done"
    /\ UNCHANGED <<enc, start, tokens, piece, parts, min_rank, iters>>
    /\ UNCHANGED others

NextWords == EncodeOrdinaryWords

SpecWords == InitWords /\ [][NextWords]_vars

\* The tokens the merge engine (byte_pair_encode) returns for each
\* pre-token of the text, concatenated.
MergedPieces(e, text) ==
    Flatten([i \in DOMAIN pieces(e, text) |-> byte_pair_encode(e, pieces(e, text)[i])])

\* C22: encode_ordinary returns, for the pre-tokens of the text in order,
\* the tokens the merge engine returns for each pre-token, also when the
\* pre-token as a whole is a key of the merge table.
C22_OrdinaryIsMerge ==
    (pc = "done" /\ call.op = "encode_ordinary")
        => result = Returned(MergedPieces(E, call.text))

----------------------------------------------------------------------------
(* The batch calls.                                                        *)

\* The inputs of the batch call made, in order.
BatchInputs ==
    IF call.op \in {"encode_batch", "encode_ordinary_batch"} THEN call.text
    ELSE call.tokens

\* What the single-item operation gives on input i of the batch call made.
Single(i) ==
    CASE call.op = "encode_batch" ->
            encode(E, call.text[i], call.allowed_special, call.disallowed_special)
      [] call.op = "encode_ordinary_batch" -> Returned(encode_ordinary(E, call.text[i]))
      [] call.op = "decode_batch" -> decode(E, call.tokens[i])
      [] call.op = "decode_bytes_batch" -> decode_bytes(E, call.tokens[i])

BatchDone ==
    /\ pc = "done"
    /\ call.op \in {"encode_batch", "encode_ordinary_batch", "decode_batch",
                     "decode_bytes_batch"}

\* C21: a batch call whose single-item operation succeeds on every input
\* returns one element per input, in input order, element i being what the
\* single-item operation returns on input i; when it fails on some input,
\* the batch call returns the error of the first such input and no list.
C21_BatchFanOut ==
    BatchDone
        => /\ (\A i \in DOMAIN BatchInputs : Single(i).ok)
                 => /\ result.ok
                    /\ Len(result.val) = Len(BatchInputs)
                    /\ \A i \in DOMAIN BatchInputs : result.val[i] = Single(i).val
           /\ \A i \in DOMAIN BatchInputs :
                 (~Single(i).ok /\ \A j \in 1..(i - 1) : Single(j).ok)
                     => (result = Single(i) /\ "val" \notin DOMAIN result)

\* C21 witness: a batch call of two inputs has returned the error of its
\* second input, the single-item operation having succeeded on the first.
C21_Witness ==
    /\ BatchDone
    /\ call.op \in {"encode_batch", "decode_batch"}
    /\ Len(BatchInputs) = 2
    /\ Single(1).ok /\ Single(1).val # <<>>
    /\ ~Single(2).ok
    /\ ~result.ok

----------------------------------------------------------------------------
(* The registry and the model tables.                                      *)

\* The calls of `op` in the log.
CallsOf(op) == {i \in DOMAIN log : log[i].op = op}

\* The prefixes of the prefix table the model name starts with.
MatchingPrefixes(model_name) ==
    {i \in DOMAIN init_prefix_registry :
        starts_with(model_name, init_prefix_registry[i][1])}

\* The exact-table entries of the model name.
ExactEntries(model_name) ==
    {i \in DOMAIN init_model_registry : init_model_registry[i][1] = model_name}

\* C18: across the get_encoding calls of a run an Encoding is constructed
\* at most once per name: a lookup of a name that an earlier completed
\* lookup returned gives the same cached Encoding, sharing its storage.
C18_ConstructOnce ==
    \A i, j \in CallsOf("get_encoding") :
        (i < j /\ log[i].name = log[j].name /\ log[i].result.ok /\ log[j].result.ok)
            => log[j].storage = log[i].storage

\* C19: encoding_name_for_model returns the encoding of the exact table
\* when the name is in it; otherwise all prefixes the name starts with map
\* to one encoding, which it returns, or none matches and it returns
\* UnknownModel: the result does not depend on the order the prefixes are
\* examined in.
C19_PrefixUnambiguous ==
    \A i \in CallsOf("encoding_name_for_model") :
        /\ ExactEntries(log[i].name) # {}
              => \A k \in ExactEntries(log[i].name) :
                    log[i].result = Ok(init_model_registry[k][2])
        /\ \A p, q \in MatchingPrefixes(log[i].name) :
              init_prefix_registry[p][2] = init_prefix_registry[q][2]
        /\ (ExactEntries(log[i].name) = {} /\ MatchingPrefixes(log[i].name) # {})
              => \A p \in MatchingPrefixes(log[i].name) :
                    log[i].result = Ok(init_prefix_registry[p][2])
        /\ (ExactEntries(log[i].name) = {} /\ MatchingPrefixes(log[i].name) = {})
              => log[i].result = Err("UnknownModel", log[i].name)

\* C20: a get_encoding call that fails returns the error and leaves the
\* registry as it is; every get_encoding call returns what it returns as
\* the first call of a process, whatever calls failed before it; and an
\* unregistered name yields UnknownEncoding(name).
C20_ErrorsIsolated ==
    /\ registry.t = "some" => registry.v = ENCODING_REGISTRY
    /\ \A i \in CallsOf("get_encoding") :
          /\ log[i].result = get_encoding_in(None, log[i].name, log[i].load).result
          /\ log[i].name \notin ENCODING_REGISTRY
                => log[i].result = Err("UnknownEncoding", log[i].name)
          /\ (log[i].name \in ENCODING_REGISTRY /\ log[i].load = "ok")
                => log[i].result = Ok(log[i].name)
          /\ (log[i].name \in ENCODING_REGISTRY /\ log[i].load = "fail")
                => (~log[i].result.ok /\ log[i].result.err = "DataError")

\* C20 witness: after a get_encoding that failed while constructing and one
\* that failed on an unregistered name, a get_encoding of another name has
\* returned its Encoding.
C20_Witness ==
    \E i, j, k \in CallsOf("get_encoding") :
        /\ i < k /\ j < k
        /\ ~log[i].result.ok /\ log[i].result.err = "DataError"
        /\ log[j].result = Err("UnknownEncoding", log[j].name)
        /\ log[k].result = Ok(log[k].name)
        /\ log[k].name # log[i].name

----------------------------------------------------------------------------
(* Calls on a shared Encoding.                                             *)

\* What the call c returns when it is the only call running on Encoding e.
Alone(e, c) ==
    CASE c.op = "encode" ->
            encode(e, c.text, c.allowed_special, c.disallowed_special)
      [] c.op = "encode_ordinary" -> Returned(encode_ordinary(e, c.text))
      [] c.op = "decode_bytes" -> decode_bytes(e, c.tokens)
      [] c.op = "decode" -> decode(e, c.tokens)
      [] c.op = "decode_single_token_bytes" ->
            decode_single_token_bytes(e, c.tokens[1])
      [] c.op = "encode_single_token" -> encode_single_token(e, c.text)

\* C16: while threads call one Encoding at once, every field of the
\* Encoding stays as Encoding::new built it, and every call that has
\* returned has returned what it returns when run alone.
C16_ImmutableShared ==
    shared # None
        => /\ shared = Encodings[enc]
           /\ \A t \in DOMAIN threads :
                 threads[t].pc = "done"
                     => threads[t].result = Alone(Encodings[enc], threads[t].call)

\* C16 witness: an encode that emitted a special token has returned in one
\* thread while the loop of another thread's encode, entered before, is
\* still between two iterations.
C16_Witness ==
    /\ shared # None
    /\ \E t, u \in DOMAIN threads :
          /\ t # u
          /\ threads[t].pc = "done" /\ threads[t].call.op = "encode"
          /\ threads[t].result.ok
          /\ \E i \in DOMAIN threads[t].result.val :
                threads[t].result.val[i] \in DOMAIN shared.special_tokens_decoder
          /\ threads[u].pc = "encode" /\ threads[u].start > 0
          /\ threads[u].call # threads[t].call

----------------------------------------------------------------------------
(* The tables of the Encodings the registry builds.                        *)

\* The byte strings of the special-token names of the Encoding in use.
SpecialNameBytes == {as_bytes(n) : n \in DOMAIN E.special_tokens_encoder}

----------------------------------------------------------------------------
(* The vocabulary loader and the Encoding built from a file.               *)

\* The fields of the lines of a file that are not blank, in file order.
EntryLines(content) ==
    SelectSeq([i \in DOMAIN lines(content) |-> split_whitespace(lines(content)[i])],
              LAMBDA f : f # <<>>)

\* A line of two fields, base64 and a decimal rank.
WellFormed(f) == Len(f) = 2 /\ b64_decode(f[1]).ok /\ parse_rank(f[2]).ok

\* The (bytes, rank) pairs written on the lines of a file of well-formed lines.
Written(content) ==
    {<<b64_decode(f[1]).val, parse_rank(f[2]).val>> : f \in Range(EntryLines(content))}

\* Two lines of the file carry the same rank for different byte sequences.
SameRankTwice(content) ==
    \E i, j \in DOMAIN EntryLines(content) :
        /\ i < j
        /\ WellFormed(EntryLines(content)[i]) /\ WellFormed(EntryLines(content)[j])
        /\ b64_decode(EntryLines(content)[i][1]).val # b64_decode(EntryLines(content)[j][1]).val
        /\ parse_rank(EntryLines(content)[i][2]).val = parse_rank(EntryLines(content)[j][2]).val

Injective(f) == \A a, b \in DOMAIN f : f[a] = f[b] => a = b

ParseDone == pc \in {"done", "built"} /\ call.op = "parse_tiktoken_bpe"

\* C11: The loader rejects duplicate ranks: parse fails with DataError
\* whenever two entries of the file carry the same rank, and so never
\* returns a table in which two byte sequences map to the same rank.
C11_DuplicateRanksRejected ==
    ParseDone
        => /\ SameRankTwice(call.text) => (~result.ok /\ result.err = "DataError")
           /\ result.ok => Injective(result.val)

\* C12: The loader only transcribes.  Blank lines are skipped; parse
\* succeeds exactly when every other line has two fields, valid base64 and
\* a decimal rank, and fails with DataError, returning no table, otherwise;
\* on success the keys are the byte sequences of the lines and each entry
\* maps its bytes to the rank written on a line carrying them, whatever the
\* position of the line.
C12_LoaderTranscribes ==
    ParseDone
        => /\ result.ok = (\A f \in Range(EntryLines(call.text)) : WellFormed(f))
           /\ ~result.ok => (result.err = "DataError" /\ "val" \notin DOMAIN result)
           /\ result.ok =>
                 /\ DOMAIN result.val = {w[1] : w \in Written(call.text)}
                 /\ \A k \in DOMAIN result.val : <<k, result.val[k]>> \in Written(call.text)

\* C12 witness: parse has succeeded on a file with a blank line and an
\* entry whose rank differs from the position of its line.
C12_Witness ==
    /\ ParseDone /\ result.ok
    /\ Len(lines(call.text)) > Len(EntryLines(call.text))
    /\ \E k \in DOMAIN result.val : result.val[k] >= Len(lines(call.text))

\* C13: Reverse-map invariant.  In every Encoding produced by Encoding::new
\* the reverse map sends the token of every key of the forward map back to
\* that key, and the two maps have as many entries.
C13_ReverseMap ==
    custom # None
        => /\ \A b \in DOMAIN custom.encoder : custom.decoder[custom.encoder[b]] = b
           /\ Cardinality(DOMAIN custom.decoder) = Cardinality(DOMAIN custom.encoder)

----------------------------------------------------------------------------
(* What the calls are checked against: the occurrences of special-token    *)
(* names in a text, found by comparing the text with each name.            *)

Min(S) == CHOOSE x \in S : \A y \in S : x <= y

SpecialNames == DOMAIN E.special_tokens_encoder

\* The special-token name that text carries at offset p, <<>> if none.
NameAt(text, p) ==
    IF \E n \in SpecialNames : p + Len(n) <= Len(text) /\ Slice(text, p, p + Len(n)) = n
    THEN CHOOSE n \in SpecialNames :
            p + Len(n) <= Len(text) /\ Slice(text, p, p + Len(n)) = n
    ELSE <<>>

\* The offsets at or after `from` where text carries a name of the set S.
Occurrences(text, from, S) ==
    {p \in from..Len(text) : NameAt(text, p) # <<>> /\ NameAt(text, p) \in S}

\* The occurrences the disallowed check rejects.
Offending(c) ==
    Occurrences(c.text, 0, (c.disallowed_special \ c.allowed_special) \cap SpecialNames)

\* The bytes the tokens toks stand for, token by token.
TokenBytes(toks) ==
    [k \in DOMAIN toks |->
        IF toks[k] \in DOMAIN E.decoder THEN E.decoder[toks[k]]
        ELSE IF toks[k] \in DOMAIN E.special_tokens_decoder
        THEN E.special_tokens_decoder[toks[k]]
        ELSE <<>>]

UnknownTokens(toks) ==
    {k \in DOMAIN toks :
        toks[k] \notin DOMAIN E.decoder \cup DOMAIN E.special_tokens_decoder}

\* The walk of the text from `cursor`: ordinary text up to the next allowed
\* occurrence, its id, and on from its end.
RECURSIVE Walk(_, _, _)
RECURSIVE WalkFrom(_, _, _, _)
Walk(text, cursor, allowed) ==
    WalkFrom(text, cursor, allowed, Occurrences(text, cursor, allowed))

\* The walk from `cursor`, occ being the allowed occurrences at or after it.
WalkFrom(text, cursor, allowed, occ) ==
    IF occ = {}
    THEN encode_ordinary(E, Slice(text, cursor, Len(text)))
    ELSE encode_ordinary(E, Slice(text, cursor, Min(occ)))
         \o <<E.special_tokens_encoder[NameAt(text, Min(occ))]>>
         \o Walk(text, Min(occ) + Len(NameAt(text, Min(occ))), allowed)

\* The smallest rank among the entries ps, and the lowest index carrying it.
MinRank(ps) == Min({ps[k][2] : k \in DOMAIN ps})
LeftmostMin(ps) == Min({k \in DOMAIN ps : ps[k][2] = MinRank(ps)}) - 1

----------------------------------------------------------------------------
(* The claims.                                                             *)

\* C1: Round-trip (ordinary).  For every text and every named encoding,
\* decode(encode_ordinary(text)) succeeds and equals the text.
C1_RoundTripOrdinary ==
    (pc = "done" /\ call.op = "encode_ordinary")
        => /\ result.ok
           /\ decode(E, result.val) = Ok(call.text)

\* C1 witness: encode_ordinary has returned for a text with a two-byte
\* character, whose bytes went to two tokens.
C1_Witness ==
    /\ pc = "done" /\ call.op = "encode_ordinary"
    /\ result.ok
    /\ \E i \in DOMAIN call.text : call.text[i] = 233
    /\ Len(call.text) > Len(result.val)
    /\ \E k \in DOMAIN result.val : result.val[k] = 195

\* C2: Round-trip (with special).  For every text and every set A of allowed
\* special names present in the encoding, encode(text, A, {}) succeeds and
\* decode of its result equals the text.
C2_RoundTripSpecial ==
    (pc = "done" /\ call.op = "encode"
        /\ call.disallowed_special = {} /\ call.allowed_special \subseteq SpecialNames)
        => /\ result.ok
           /\ decode(E, result.val) = Ok(call.text)

\* C2 witness: encode has returned, nothing disallowed, for a text of
\* ordinary text followed by an allowed special token.
C2_Witness ==
    /\ pc = "done" /\ call.op = "encode" /\ result.ok
    /\ call.disallowed_special = {}
    /\ call.allowed_special # {} /\ call.allowed_special \subseteq SpecialNames
    /\ \E p \in Occurrences(call.text, 0, call.allowed_special) : p > 0
    /\ \E k \in DOMAIN result.val : result.val[k] \in DOMAIN E.special_tokens_decoder

\* C3: Merge contract.  For every non-empty pre-token whose single bytes
\* are all keys of the merge table, the bytes of the tokens byte_pair_encode
\* returns, concatenated in order, are the pre-token.
C3_MergeContract ==
    (pc = "done" /\ call.op = "byte_pair_encode"
        /\ piece # <<>> /\ \A i \in DOMAIN piece : <<piece[i]>> \in DOMAIN E.encoder)
        => /\ result.ok
           /\ UnknownTokens(result.val) = {}
           /\ Flatten(TokenBytes(result.val)) = piece

\* C3 witness: byte_pair_encode has returned after at least two merges with
\* more than one token.
C3_Witness ==
    /\ pc = "done" /\ call.op = "byte_pair_encode"
    /\ result.ok /\ Len(result.val) > 1 /\ iters >= 2
    /\ Len(piece) > Len(result.val)

\* C4: Disallowed special tokens.  If the text has a special-token match
\* whose name is disallowed and not allowed, encode returns EncodingError
\* naming the token (the first such match) and no tokens, wherever the match
\* sits in the text: the loop that emits tokens is never entered.
C4_DisallowedRejected ==
    (call.op = "encode" /\ Offending(call) # {})
        => /\ pc = "done"
           /\ result = Err("EncodingError", NameAt(call.text, Min(Offending(call))))
           /\ tokens = <<>>

\* C4 witness: encode was rejected for a text whose offending match comes
\* after an allowed special token.
C4_Witness ==
    /\ pc = "done" /\ call.op = "encode" /\ ~result.ok
    /\ Offending(call) # {}
    /\ \E q \in Occurrences(call.text, 0, call.allowed_special) : q < Min(Offending(call))

\* C5: Allowed special tokens.  encode walks the text left to right: the
\* tokens emitted so far, followed by the walk from the cursor (ordinary
\* text up to the next allowed match, the match's id, on from the match's
\* end, and the remainder as ordinary text), are the walk from offset 0; the
\* value returned is that walk.
C5_AllowedWalk ==
    /\ pc = "encode"
          => tokens \o Walk(call.text, start, call.allowed_special)
                = Walk(call.text, 0, call.allowed_special)
    /\ (pc = "done" /\ call.op = "encode" /\ result.ok)
          => result.val = Walk(call.text, 0, call.allowed_special)

\* C5 witness: encode is in mid-walk: an allowed special token has been
\* emitted, the cursor is at its end and another allowed special token is
\* still ahead.
C5_Witness ==
    /\ pc = "encode" /\ 0 < start /\ start < Len(call.text)
    /\ tokens # <<>>
    /\ tokens[Len(tokens)] \in DOMAIN E.special_tokens_decoder
    /\ Occurrences(call.text, start, call.allowed_special) # {}

\* C6: A special token that is matched but neither allowed nor rejected is
\* ordinary text: when no match is allowed and none is rejected,
\* encode(s, A, D) = Ok(encode_ordinary(s)); so for A = D = {}.
C6_NotAllowedIsOrdinary ==
    (pc = "done" /\ call.op = "encode"
        /\ Occurrences(call.text, 0, call.allowed_special) = {}
        /\ Offending(call) = {})
        => result = Ok(encode_ordinary(E, call.text))

\* C6 witness: encode has returned for a text with a special token that is
\* neither allowed nor disallowed.
C6_Witness ==
    /\ pc = "done" /\ call.op = "encode" /\ result.ok
    /\ Occurrences(call.text, 0, SpecialNames) # {}
    /\ Occurrences(call.text, 0, call.allowed_special) = {}
    /\ call.disallowed_special # {}
    /\ Len(result.val) > 1

\* C7: decode_bytes looks each token up in the ordinary reverse map, then
\* in the special one, and concatenates in token order; a token in neither
\* makes it fail with InvalidToken of the first such token, with no output;
\* decode([u32::MAX]) is InvalidToken(u32::MAX).
C7_DecodeBytes ==
    /\ (pc = "done" /\ call.op = "decode_bytes")
          => result = IF UnknownTokens(call.tokens) = {}
                      THEN Ok(Flatten(TokenBytes(call.tokens)))
                      ELSE Err("InvalidToken", call.tokens[Min(UnknownTokens(call.tokens))])
    /\ (pc = "done" /\ call.op = "decode" /\ call.tokens = <<TOKEN_MAX>>)
          => result = Err("InvalidToken", TOKEN_MAX)

\* C7 witness: decode_bytes has failed on two different unknown tokens.
C7_Witness ==
    /\ pc = "done" /\ call.op = "decode_bytes" /\ ~result.ok
    /\ Len(call.tokens) = 2
    /\ UnknownTokens(call.tokens) = {1, 2}
    /\ call.tokens[1] # call.tokens[2]

\* C8: decode validates UTF-8 over the concatenation of the token bytes:
\* it succeeds exactly when decode_bytes does and the concatenation is valid
\* UTF-8, the string returned having those bytes, and fails with
\* DecodingError when the concatenation is not valid.
C8_DecodeUtf8 ==
    (pc = "done" /\ call.op = "decode" /\ UnknownTokens(call.tokens) = {})
        => /\ result.ok = from_utf8(Flatten(TokenBytes(call.tokens))).ok
           /\ result.ok => as_bytes(result.val) = Flatten(TokenBytes(call.tokens))
           /\ ~result.ok => result.err = "DecodingError"

\* C8 witness: decode has succeeded on two tokens neither of which is valid
\* UTF-8 alone.
C8_Witness ==
    /\ pc = "done" /\ call.op = "decode" /\ result.ok
    /\ Len(call.tokens) = 2
    /\ \A k \in 1..2 : ~from_utf8(TokenBytes(call.tokens)[k]).ok

\* C9: encode_single_token(text) is Ok(id) iff the bytes of text are a key
\* of the special map (consulted first) or of the merge table, id being the
\* key's id, and EncodingError otherwise; decode_single_token_bytes(id) is
\* then the bytes of text.
C9_EncodeSingleToken ==
    (pc = "done" /\ call.op = "encode_single_token")
        => /\ result.ok = (call.text \in SpecialNames
                             \/ as_bytes(call.text) \in DOMAIN E.encoder)
           /\ ~result.ok => result.err = "EncodingError"
           /\ result.ok =>
                 /\ result.val = IF call.text \in SpecialNames
                                 THEN E.special_tokens_encoder[call.text]
                                 ELSE E.encoder[as_bytes(call.text)]
                 /\ decode_single_token_bytes(E, result.val) = Ok(as_bytes(call.text))

\* C9 witness: encode_single_token has returned the id of a special token.
C9_Witness ==
    /\ pc = "done" /\ call.op = "encode_single_token" /\ result.ok
    /\ call.text \in SpecialNames

\* C10: Tie-break locality.  In every iteration of the merge loop the entry
\* chosen has the smallest rank of all entries, the lowest index among those
\* that carry it, and the loop stops exactly when the smallest rank is
\* RANK_MAX.
C10_TieBreak ==
    /\ (pc = "merge" /\ MinRank(parts) # RANK_MAX)
          => min_rank = <<MinRank(parts), LeftmostMin(parts)>>
    /\ (pc = "merge" /\ MinRank(parts) = RANK_MAX) => min_rank[1] = RANK_MAX
    /\ (pc = "done" /\ call.op = "byte_pair_encode" /\ Len(piece) > 1)
          => MinRank(parts) = RANK_MAX

\* C10 witness: the merge loop is at an iteration where two entries share
\* the smallest rank.
C10_Witness ==
    /\ pc = "merge" /\ MinRank(parts) # RANK_MAX
    /\ \E j, k \in DOMAIN parts :
          j < k /\ parts[j][2] = MinRank(parts) /\ parts[k][2] = MinRank(parts)

----------------------------------------------------------------------------
(* The merge loop.  Entry j of the code's 0-indexed list is ps[j + 1].     *)

\* byte_pair_merge is running or has returned, on a piece of two bytes or
\* more.
InMerge == pc \in {"merge", "done"} /\ call.op = "byte_pair_encode" /\ Len(piece) >= 2

\* The rank the merge table gives to the slice of entry j joined with the
\* slice after it, RANK_MAX when the table has no such key or the list has
\* no entry j + 2.
FreshRank(e, pc_, ps, j) ==
    IF j + 2 <= Len(ps) - 1 /\ Slice(pc_, ps[j + 1][1], ps[j + 3][1]) \in DOMAIN e.encoder
    THEN e.encoder[Slice(pc_, ps[j + 1][1], ps[j + 3][1])]
    ELSE RANK_MAX

\* C23: when a merge has been made at index i, the list has one entry
\* less, every entry other than i and i - 1 keeps its start and its rank,
\* and entries i and i - 1 hold the rank of their slice joined with the
\* next; and whenever the loop is at its head, after the initial scan or
\* after a merge, every entry holds that rank, the last two RANK_MAX.
C23_RankFreshness ==
    [][/\ (pc' = "merge")
            => /\ \A j \in 0..(Len(parts') - 1) :
                     parts'[j + 1][2] = FreshRank(E, piece', parts', j)
               /\ parts'[Len(parts')][2] = RANK_MAX
               /\ parts'[Len(parts') - 1][2] = RANK_MAX
       /\ (pc = "merge" /\ pc' = "merge")
            => /\ Len(parts') = Len(parts) - 1
               /\ \A j \in 0..(Len(parts') - 1) :
                     (j # min_rank[2] /\ j # min_rank[2] - 1)
                         => parts'[j + 1] = parts[IF j < min_rank[2] THEN j + 1 ELSE j + 2]
               /\ \A j \in {min_rank[2], min_rank[2] - 1} \cap (0..(Len(parts') - 1)) :
                     /\ parts'[j + 1][1] = parts[j + 1][1]
                     /\ parts'[j + 1][2] = FreshRank(E, piece, parts', j)
      ]_vars

\* C23 witness: the loop is at its head after a merge at an index above 0,
\* and an entry still holds a rank of the table.
C23_Witness ==
    /\ pc = "merge" /\ iters >= 1
    /\ Len(parts) < Len(piece) + 1
    /\ min_rank[1] # RANK_MAX /\ min_rank[2] > 0
    /\ \E j \in 1..(Len(parts) - 2) : parts[j][2] # RANK_MAX

\* C24: at every point of byte_pair_merge on a piece of n >= 2 bytes the
\* starts of the list are strictly increasing from 0 to n, and the entry
\* the next merge removes is neither the first nor the last.
C24_Partition ==
    InMerge
        => /\ parts[1][1] = 0
           /\ parts[Len(parts)][1] = Len(piece)
           /\ \A j \in 1..(Len(parts) - 1) : parts[j][1] < parts[j + 1][1]
           /\ (pc = "merge" /\ min_rank[1] # RANK_MAX)
                 => (1 < min_rank[2] + 2 /\ min_rank[2] + 2 < Len(parts))

\* C24 witness: the loop is about to merge at the first entry, having
\* merged before.
C24_Witness ==
    /\ InMerge /\ pc = "merge"
    /\ iters >= 1
    /\ min_rank[1] # RANK_MAX /\ min_rank[2] = 0

\* C25: when byte_pair_merge has returned, no two consecutive slices of the
\* list, and so no two consecutive tokens of the result, join to a key of
\* the merge table with a rank below RANK_MAX.
C25_MergeFixpoint ==
    (InMerge /\ pc = "done")
        => /\ \A j \in 1..(Len(parts) - 2) :
                 rank_of(E, Slice(piece, parts[j][1], parts[j + 2][1])) = RANK_MAX
           /\ result.ok
           /\ \A k \in 1..(Len(result.val) - 1) :
                 rank_of(E, TokenBytes(result.val)[k] \o TokenBytes(result.val)[k + 1])
                    = RANK_MAX

\* C25 witness: byte_pair_merge has returned several slices after merging.
C25_Witness ==
    /\ InMerge /\ pc = "done" /\ result.ok
    /\ iters >= 1
    /\ Len(result.val) >= 2

\* C26: each iteration of the merge loop takes one entry off the list, the
\* loop makes at most n - 1 iterations on a piece of n >= 2 bytes, and a
\* running loop always comes to return, with the smallest rank RANK_MAX.
C26_MergeTerminates ==
    /\ [](InMerge => (Len(parts) = Len(piece) + 1 - iters /\ iters <= Len(piece) - 1))
    /\ [](InMerge /\ pc = "done" => MinRank(parts) = RANK_MAX)
    /\ (pc = "merge") ~> (pc = "done" /\ min_rank[1] = RANK_MAX)

\* C26 witness: the loop has returned after three iterations or more.
C26_Witness ==
    /\ InMerge /\ pc = "done"
    /\ iters >= 3
    /\ min_rank[1] = RANK_MAX

----------------------------------------------------------------------------
(* Calls on an Encoding built by Encoding::new.                            *)

\* C27: on every iteration of the loop of encode that does not stop the
\* loop, whatever the text, the special-token map and the allowed set, the
\* cursor moves forward.
C27_EncodeTerminates ==
    [][(pc = "encode" /\ pc' = "encode") => start' > start]_vars

\* C28: encode_ordinary on an Encoding that Encoding::new accepted returns
\* a token list, whatever the text: no lookup of the call misses its key.
C28_OrdinaryNeverAborts ==
    (pc = "done" /\ call.op = "encode_ordinary") => result.ok

----------------------------------------------------------------------------
(* From a model name to an Encoding.                                       *)

\* encoding_name_for_model resolves the model name.
Resolved(model_name) == \E r \in encoding_names_for_model(model_name) : r.ok

\* C29: encoding_for_model on a model name that encoding_name_for_model
\* resolves never fails with UnknownEncoding: the name resolved to is one
\* of the registry.
C29_ResolvedIsRegistered ==
    \A k \in DOMAIN log :
        (log[k].op = "encoding_for_model" /\ Resolved(log[k].name))
            => (log[k].result.ok \/ log[k].result.err # "UnknownEncoding")

\* C30: get_encoding_for_any_model on a model name that
\* encoding_name_for_model resolves returns, the vocabulary loading, an
\* Encoding of a name encoding_for_model returns for it.
C30_DispatchAgrees ==
    \A k \in DOMAIN log :
        (log[k].op = "get_encoding_for_any_model" /\ Resolved(log[k].name)
            /\ log[k].load # "fail")
            => /\ log[k].result.ok
               /\ Ok(log[k].result.val) \in encoding_names_for_model(log[k].name)

====
